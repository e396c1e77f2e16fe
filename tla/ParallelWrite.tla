--------------------------- MODULE ParallelWrite ---------------------------
(***************************************************************************)
(* Parallel writes of the /data-objects endpoint                           *)
(* (src/endpoints/data_objects/src/main.cpp): the global table of contexts, *)
(* the streams of each context, the global count of active streams, and    *)
(* the three operations that share them: parallel_write_init, write (with  *)
(* the body buffered, or streamed from the socket) and                     *)
(* parallel_write_shutdown.                                                *)
(*                                                                         *)
(* Requests run on the background threads and, for a streamed body, on the *)
(* I/O threads.  One action is what a request does between two points where *)
(* another request can get in: a lock, an atomic, a call to the iRODS      *)
(* server, or the end of a task.  A stream is named <<h, i>> by the handle  *)
(* its context gets and its position in the context; the handle of an init *)
(* that is still opening streams names its local vector pw_streams.        *)
(*                                                                         *)
(* What a request reads from an erased context is its last contents, one   *)
(* of the outcomes a freed object can give.  Only the properties of a run  *)
(* with AwaitReplies = FALSE depend on that.                               *)
(***************************************************************************)
EXTENDS Integers, FiniteSets

CONSTANTS
  Reqs,                \* Slots for the requests being serviced at one time.
  NoReq,               \* Not a request: nobody holds g_pwc_mtx.
  Handles,             \* The UUIDs generate_uuid returns, each at most once.
  NoHandle,            \* The handle of a slot that is idle.
  MaxStreamsPerHandle, \* max_number_of_streams_per_parallel_write_handle
  MaxStreams,          \* max_number_of_parallel_write_streams
  MaxChunks,           \* Bound: the chunks of the body of one write.
  AwaitReplies         \* TRUE: a client sends the shutdown of a handle when
                       \* its writes are answered, and no write afterwards.

ASSUME ConstantsAssumption ==
  /\ NoReq \notin Reqs
  /\ NoHandle \notin Handles
  /\ MaxStreamsPerHandle \in Nat \ {0}
  /\ MaxStreams \in Nat
  /\ MaxChunks \in Nat
  /\ AwaitReplies \in BOOLEAN

ASSUME FiniteAssumption == IsFiniteSet(Reqs) /\ IsFiniteSet(Handles)

VARIABLES
  lock,   \* The request holding g_pwc_mtx exclusively, or NoReq.
  phase,  \* phase[h]: where the context of h is in its life.
  size,   \* size[h]: length of the vector of streams.
  open,   \* open[h]: the streams of h open on the iRODS server.
  bad,    \* bad[h]: the streams of h in a failed state.
  inUse,  \* inUse[h]: the streams of h whose in_use_ is true.
  active, \* g_active_parallel_write_streams
  known,  \* The handles that a reply has given to a client.
  (* The request in slot r. *)
  pc,        \* pc[r]: where its code is.
  hdl,       \* hdl[r]: its handle.
  idx,       \* idx[r]: its stream, or the stream a shutdown closes next.
  count,     \* count[r]: stream-count of an init, chunks left of a write.
  marked,    \* marked[r]: mark_pw_stream_as_usable is set.
  streaming, \* streaming[r]: op_write_streaming rather than op_write.
  byIndex,   \* byIndex[r]: stream-index is given.
  code       \* code[r]: the status of its reply.

ctxVars == <<phase, size, open, bad, inUse>>
srvVars == <<lock, phase, size, open, bad, inUse, active, known>>
args == <<hdl, idx, count, marked, streaming, byIndex>>
vars == <<srvVars, pc, args, code>>

Index == 0 .. MaxStreamsPerHandle - 1
Phases == {"unborn", "opening", "failed", "ready", "erased"}
Codes == {"none", "ok", "irods_error", "bad_request", "too_many_requests",
          "internal_server_error", "service_unavailable"}
WritePCs == {"find", "pick", "check", "recv", "chunk"}
ShutdownPCs == {"lock", "close", "erase"}
PCs == WritePCs \cup ShutdownPCs \cup
         {"idle", "limits", "opening", "publish", "sent"}

Init ==
  /\ lock = NoReq
  /\ phase = [h \in Handles |-> "unborn"]
  /\ size = [h \in Handles |-> 0]
  /\ open = [h \in Handles |-> {}]
  /\ bad = [h \in Handles |-> {}]
  /\ inUse = [h \in Handles |-> {}]
  /\ active = 0
  /\ known = {}
  /\ pc = [r \in Reqs |-> "idle"]
  /\ hdl = [r \in Reqs |-> NoHandle]
  /\ idx = [r \in Reqs |-> 0]
  /\ count = [r \in Reqs |-> 0]
  /\ marked = [r \in Reqs |-> FALSE]
  /\ streaming = [r \in Reqs |-> FALSE]
  /\ byIndex = [r \in Reqs |-> FALSE]
  /\ code = [r \in Reqs |-> "none"]

Goto(r, next) == pc' = [pc EXCEPT ![r] = next] /\ UNCHANGED code

\* session::send.  The objects of the request die later, in Finish.
Send(r, status) ==
  pc' = [pc EXCEPT ![r] = "sent"] /\ code' = [code EXCEPT ![r] = status]

\* A write on h that its client has not seen the reply of.
Unanswered(r, h) == hdl[r] = h /\ pc[r] \in WritePCs

\* A shutdown of h was sent and is not answered.
ShuttingDown(r, h) == hdl[r] = h /\ pc[r] \in ShutdownPCs

\* The handles a client may send: one it was given, or a made-up one, for
\* which a handle that will never be in the table stands.
Sendable(h) == h \in known \/ phase[h] = "failed"

-----------------------------------------------------------------------------
(* parallel_write_init *)

\* Bound: the inits under way never want more handles than there are left.
HandlesLeft ==
  Cardinality({q \in Reqs : pc[q] = "limits"})
    < Cardinality({h \in Handles : phase[h] = "unborn"})

\* Counts 0 and MaxStreamsPerHandle + 1 are the ones the limits refuse.
StartInit(r, n) ==
  /\ pc[r] = "idle"
  /\ HandlesLeft
  /\ Goto(r, "limits")
  /\ count' = [count EXCEPT ![r] = n]
  /\ UNCHANGED <<srvVars, hdl, idx, marked, streaming, byIndex>>

\* Faulty variant: zero streams are let through.
ValidCountOrZero(r) == count[r] \in 0 .. MaxStreamsPerHandle

ValidCount(r) == count[r] \in 1 .. MaxStreamsPerHandle

RefuseCount(r) ==
  /\ pc[r] = "limits"
  /\ ~ValidCount(r)
  /\ Send(r, "bad_request")
  /\ UNCHANGED <<srvVars, args>>

RefuseOverLimit(r) ==
  /\ pc[r] = "limits"
  /\ ValidCount(r)
  /\ active + count[r] > MaxStreams
  /\ Send(r, "service_unavailable")
  /\ UNCHANGED <<srvVars, args>>

\* The check reserves nothing: active changes when a stream is open.
PassLimits(r) ==
  /\ pc[r] = "limits"
  /\ ValidCount(r)
  /\ active + count[r] <= MaxStreams
  /\ \E h \in Handles :
       /\ phase[h] = "unborn"
       /\ phase' = [phase EXCEPT ![h] = "opening"]
       /\ hdl' = [hdl EXCEPT ![r] = h]
  /\ Goto(r, "opening")
  /\ UNCHANGED <<lock, size, open, bad, inUse, active, known>>
  /\ UNCHANGED <<idx, count, marked, streaming, byIndex>>

\* One connection and one odstream: the primary, then the secondaries.
OpenStream(r) ==
  LET h == hdl[r] IN
  /\ pc[r] = "opening"
  /\ size' = [size EXCEPT ![h] = @ + 1]
  /\ open' = [open EXCEPT ![h] = @ \cup {size[h]}]
  /\ active' = active + 1
  /\ Goto(r, IF size[h] + 1 = count[r] THEN "publish" ELSE "opening")
  /\ UNCHANGED <<lock, phase, bad, inUse, known, args>>

\* An exception while opening, or before it a parameter that is refused.
\* pw_streams and the streams it holds are destroyed; the count keeps what
\* they added to it.
OpenFails(r) ==
  LET h == hdl[r] IN
  /\ pc[r] = "opening"
  /\ phase' = [phase EXCEPT ![h] = "failed"]
  /\ open' = [open EXCEPT ![h] = {}]
  /\ \E status \in {"irods_error", "internal_server_error", "bad_request"} :
       /\ status = "bad_request" => size[h] = 0
       /\ Send(r, status)
  /\ UNCHANGED <<lock, size, bad, inUse, active, known, args>>

\* Insertion in the table under g_pwc_mtx, then the assignment of the
\* streams and the mutex after the unlock.  Nobody knows the handle before
\* the reply, so the two are one step.
Publish(r) ==
  LET h == hdl[r] IN
  /\ pc[r] = "publish"
  /\ lock = NoReq
  /\ phase' = [phase EXCEPT ![h] = "ready"]
  /\ known' = known \cup {h}
  /\ Send(r, "ok")
  /\ UNCHANGED <<lock, size, open, bad, inUse, active, args>>

-----------------------------------------------------------------------------
(* write with a parallel-write-handle: op_write and op_write_streaming *)

\* The client's request: a body of n chunks, and stream-index i (any, also
\* one past the end) if b.
StartWrite(r, h, n, i, s, b) ==
  /\ pc[r] = "idle"
  /\ Sendable(h)
  /\ AwaitReplies => \A q \in Reqs : ~ShuttingDown(q, h)
  /\ Goto(r, "find")
  /\ hdl' = [hdl EXCEPT ![r] = h]
  /\ idx' = [idx EXCEPT ![r] = i]
  /\ count' = [count EXCEPT ![r] = n]
  /\ streaming' = [streaming EXCEPT ![r] = s]
  /\ byIndex' = [byIndex EXCEPT ![r] = b]
  /\ UNCHANGED <<srvVars, marked>>

\* Faulty variant: the result of the lookup is not checked.
AnyHandle(h) == TRUE

InTable(h) == phase[h] = "ready"

\* The shared lock covers the lookup alone; the iterator outlives it.
FindContext(r) ==
  /\ pc[r] = "find"
  /\ lock = NoReq
  /\ IF InTable(hdl[r]) THEN Goto(r, "pick") ELSE Send(r, "bad_request")
  /\ UNCHANGED <<srvVars, args>>

\* stream-index: streams.at(sindex), which leaves in_use_ alone.
PickByIndex(r) ==
  /\ pc[r] = "pick"
  /\ byIndex[r]
  /\ IF idx[r] < size[hdl[r]] THEN Goto(r, "check") ELSE Send(r, "bad_request")
  /\ UNCHANGED <<srvVars, args>>

\* Faulty variant: the search starts behind the primary stream.
FreeSecondaries(h) == (1 .. size[h] - 1) \ inUse[h]

FreeStreams(h) == (0 .. size[h] - 1) \ inUse[h]

MarkInUse(h, i) == inUse' = [inUse EXCEPT ![h] = @ \cup {i}]

\* find_available_parallel_write_stream: the first stream that is not in use,
\* taken under the mutex of the context.
PickFree(r) ==
  LET h == hdl[r] IN
  /\ pc[r] = "pick"
  /\ ~byIndex[r]
  /\ \E i \in FreeStreams(h) :
       /\ \A j \in FreeStreams(h) : i <= j
       /\ MarkInUse(h, i)
       /\ idx' = [idx EXCEPT ![r] = i]
  /\ marked' = [marked EXCEPT ![r] = TRUE]
  /\ Goto(r, "check")
  /\ UNCHANGED <<lock, phase, size, open, bad, active, known>>
  /\ UNCHANGED <<hdl, count, streaming, byIndex>>

AllBusy(r) ==
  /\ pc[r] = "pick"
  /\ ~byIndex[r]
  /\ FreeStreams(hdl[r]) = {}
  /\ Send(r, "too_many_requests")
  /\ UNCHANGED <<srvVars, args>>

StreamBad(r) == idx[r] \in bad[hdl[r]]

SpoilStream(r) == bad' = [bad EXCEPT ![hdl[r]] = @ \cup {idx[r]}]

\* A buffered body is at hand; a streamed one is read from the socket first.
NextChunk(r) == IF streaming[r] THEN "recv" ELSE "chunk"

\* The stream's state, then the offset.  An offset or a body that is missing
\* or malformed is a 400; a seek that fails leaves the stream in a bad state.
CheckStream(r) ==
  /\ pc[r] = "check"
  /\ \/ StreamBad(r) /\ Send(r, "irods_error") /\ UNCHANGED bad
     \/ ~StreamBad(r) /\ Send(r, "irods_error") /\ SpoilStream(r)
     \/ ~StreamBad(r) /\ Send(r, "bad_request") /\ UNCHANGED bad
     \/ ~StreamBad(r) /\ Goto(r, NextChunk(r)) /\ UNCHANGED bad
  /\ UNCHANGED <<lock, phase, size, open, inUse, active, known, args>>

\* streaming_write::stream_bytes_from_client: more of the body arrives, the
\* read fails (the client left, the request timed out), or the body is done.
ReceiveChunk(r) ==
  /\ pc[r] = "recv"
  /\ \/ count[r] > 0 /\ Goto(r, "chunk")
     \/ count[r] > 0 /\ Send(r, "internal_server_error")
     \/ count[r] = 0 /\ Send(r, "ok")
  /\ UNCHANGED <<srvVars, args>>

\* stream_bytes_to_irods of both classes: one background task.  The write may
\* fail (on a closed stream it does); the task does not look at its outcome.
WriteChunk(r) ==
  /\ pc[r] = "chunk"
  /\ count[r] > 0
  /\ ~StreamBad(r)
  /\ count' = [count EXCEPT ![r] = @ - 1]
  /\ Goto(r, NextChunk(r))
  /\ SpoilStream(r) \/ (idx[r] \in open[hdl[r]] /\ UNCHANGED bad)
  /\ UNCHANGED <<lock, phase, size, open, inUse, active, known>>
  /\ UNCHANGED <<hdl, idx, marked, streaming, byIndex>>

\* The task finds a stream in a bad state, or nothing left to write.
EndWrite(r) ==
  /\ pc[r] = "chunk"
  /\ \/ count[r] > 0 /\ StreamBad(r) /\ Send(r, "internal_server_error")
     \/ count[r] = 0 /\ Send(r, "ok")
  /\ UNCHANGED <<srvVars, args>>

-----------------------------------------------------------------------------
(* parallel_write_shutdown *)

StartShutdown(r, h) ==
  /\ pc[r] = "idle"
  /\ Sendable(h)
  /\ AwaitReplies => \A q \in Reqs : ~Unanswered(q, h)
  /\ Goto(r, "lock")
  /\ hdl' = [hdl EXCEPT ![r] = h]
  /\ UNCHANGED <<srvVars, idx, count, marked, streaming, byIndex>>

\* Faulty variant: the table is not locked, or only shared.
SkipLock(r) == UNCHANGED lock

TakeLock(r) == lock = NoReq /\ lock' = r

\* Faulty variant: the loop runs from the front of the vector.
FromPrimary(h) == 0

FromLast(h) == size[h] - 1

LockContexts(r) ==
  /\ pc[r] = "lock"
  /\ InTable(hdl[r])
  /\ TakeLock(r)
  /\ idx' = [idx EXCEPT ![r] = FromLast(hdl[r])]
  /\ Goto(r, "close")
  /\ UNCHANGED <<ctxVars, active, known>>
  /\ UNCHANGED <<hdl, count, marked, streaming, byIndex>>

\* A handle that is not in the table is answered like one that is.
NothingToShutDown(r) ==
  /\ pc[r] = "lock"
  /\ lock = NoReq
  /\ ~InTable(hdl[r])
  /\ Send(r, "ok")
  /\ UNCHANGED <<srvVars, args>>

\* From the last stream to the primary, which alone updates the catalog.
CloseStream(r) ==
  /\ pc[r] = "close"
  /\ open' = [open EXCEPT ![hdl[r]] = @ \ {idx[r]}]
  /\ active' = active - 1
  /\ IF idx[r] > 0
     THEN Goto(r, "close") /\ idx' = [idx EXCEPT ![r] = @ - 1]
     ELSE Goto(r, "erase") /\ UNCHANGED idx
  /\ UNCHANGED <<lock, phase, size, bad, inUse, known>>
  /\ UNCHANGED <<hdl, count, marked, streaming, byIndex>>

EraseContext(r) ==
  /\ pc[r] = "erase"
  /\ phase' = [phase EXCEPT ![hdl[r]] = "erased"]
  /\ lock' = NoReq
  /\ Send(r, "ok")
  /\ UNCHANGED <<size, open, bad, inUse, active, known, args>>

-----------------------------------------------------------------------------

Clear(i) == [inUse EXCEPT ![hdl[i]] = @ \ {idx[i]}]

\* Faulty variant: a write with a stream-index gives its stream back too.
ReleaseAny(r) == inUse' = IF marked[r] \/ byIndex[r] THEN Clear(r) ELSE inUse

\* Faulty variant: the error replies skip the release.
ReleaseIfOk(r) ==
  inUse' = IF marked[r] /\ code[r] = "ok" THEN Clear(r) ELSE inUse

\* mark_pw_stream_as_usable
Release(r) == inUse' = IF marked[r] THEN Clear(r) ELSE inUse

\* The last reference to the request's objects goes after the reply is on its
\* way: only then is the stream given back.  The slot is then as it was.
Finish(r) ==
  /\ pc[r] = "sent"
  /\ Release(r)
  /\ pc' = [pc EXCEPT ![r] = "idle"]
  /\ hdl' = [hdl EXCEPT ![r] = NoHandle]
  /\ idx' = [idx EXCEPT ![r] = 0]
  /\ count' = [count EXCEPT ![r] = 0]
  /\ marked' = [marked EXCEPT ![r] = FALSE]
  /\ streaming' = [streaming EXCEPT ![r] = FALSE]
  /\ byIndex' = [byIndex EXCEPT ![r] = FALSE]
  /\ code' = [code EXCEPT ![r] = "none"]
  /\ UNCHANGED <<lock, phase, size, open, bad, active, known>>

InitStep(r) ==
  RefuseCount(r) \/ RefuseOverLimit(r) \/ PassLimits(r) \/ OpenStream(r)
    \/ OpenFails(r) \/ Publish(r)

WriteStep(r) ==
  FindContext(r) \/ PickByIndex(r) \/ PickFree(r) \/ AllBusy(r)
    \/ CheckStream(r) \/ ReceiveChunk(r) \/ WriteChunk(r) \/ EndWrite(r)

ShutdownStep(r) ==
  LockContexts(r) \/ NothingToShutDown(r) \/ CloseStream(r) \/ EraseContext(r)

\* What the server does for r; the Start actions are the clients'.
Step(r) == InitStep(r) \/ WriteStep(r) \/ ShutdownStep(r) \/ Finish(r)

Start(r) ==
  \/ \E n \in 0 .. MaxStreamsPerHandle + 1 : StartInit(r, n)
  \/ \E h \in Handles, n \in 0 .. MaxChunks, s \in BOOLEAN :
       \/ StartWrite(r, h, n, 0, s, FALSE)
       \/ \E i \in 0 .. MaxStreamsPerHandle : StartWrite(r, h, n, i, s, TRUE)
  \/ \E h \in Handles : StartShutdown(r, h)

Next == \E r \in Reqs : Start(r) \/ Step(r)

Spec == Init /\ [][Next]_vars

(***************************************************************************)
(* The pools' threads run every task they are given, and a read from a     *)
(* client ends: session::do_read_header arms the timeout of the socket.    *)
(***************************************************************************)
FairSpec == Spec /\ \A r \in Reqs : WF_vars(Step(r))

-----------------------------------------------------------------------------
(* What the code promises *)

\* The type of every variable.
TypeOK ==
  /\ lock \in Reqs \cup {NoReq}
  /\ phase \in [Handles -> Phases]
  /\ size \in [Handles -> 0 .. MaxStreamsPerHandle]
  /\ open \in [Handles -> SUBSET Index]
  /\ bad \in [Handles -> SUBSET Index]
  /\ inUse \in [Handles -> SUBSET Index]
  /\ active \in Int
  /\ known \in SUBSET Handles
  /\ pc \in [Reqs -> PCs]
  /\ hdl \in [Reqs -> Handles \cup {NoHandle}]
  /\ idx \in [Reqs -> 0 .. MaxStreamsPerHandle]
  /\ count \in [Reqs -> Nat]
  /\ marked \in [Reqs -> BOOLEAN]
  /\ streaming \in [Reqs -> BOOLEAN]
  /\ byIndex \in [Reqs -> BOOLEAN]
  /\ code \in [Reqs -> Codes]

\* Two writes that let the server choose their stream never get the same
\* one: the in_use_ flag set by find_available_parallel_write_stream is a
\* lock, from the choice to the end of the last task of the write.
AutoStreamsExclusive ==
  \A q, r \in Reqs :
    /\ q # r
    /\ marked[q] /\ marked[r]
    /\ hdl[q] = hdl[r]
    => idx[q] # idx[r]

Holders(h) == {r \in Reqs : marked[r] /\ hdl[r] = h}

\* in_use_ is true exactly while a write holds the stream: no error path of
\* op_write, op_write_streaming or the transfer classes leaves it set, and
\* none clears it for somebody else.
InUseIffHeld ==
  \A h \in Handles : inUse[h] = {idx[r] : r \in Holders(h)}

\* A write has its stream and may still move it.
Writing(r) == pc[r] \in {"check", "recv", "chunk"}

\* A request still has a use for the pointers it took from the context: the
\* iterator, the stream, and in the scope exit that follows the reply the
\* stream whose flag it clears.
UsesContext(r) ==
  pc[r] = "pick" \/ Writing(r) \/ (pc[r] = "sent" /\ marked[r])

HasContext(r) ==
  /\ phase[hdl[r]] = "ready"
  /\ Writing(r) => idx[r] \in open[hdl[r]]

\* With clients that shut a handle down after the replies to their writes, a
\* write meets an erased context or a closed stream in one place only, the
\* scope exit after the reply (see ContextOutlivesUse).
OnlyTheReleaseIsLate ==
  AwaitReplies =>
    \A r \in Reqs : UsesContext(r) /\ ~HasContext(r) => pc[r] = "sent"

\* The streams g_active_parallel_write_streams counts: the open ones, and
\* for good those of an init that failed half way.
Counted ==
  {s \in Handles \X Index :
     s[2] \in open[s[1]] \/ (phase[s[1]] = "failed" /\ s[2] < size[s[1]])}

\* The counter never misses an open stream, and is too high by exactly the
\* streams of failed inits, whatever inits and shutdowns overlap.
CounterAccurate == active = Cardinality(Counted)

\* The primary stream of a context is closed when all the secondary ones
\* are, "so that replication resources are triggered correctly".
PrimaryClosedLast ==
  [][\A h \in Handles :
       /\ phase[h] = "ready"
       /\ 0 \in open[h] /\ 0 \notin open'[h]
       => open[h] = {0}]_vars

\* A stream the server chose for a write becomes available again, whatever
\* the client or the iRODS server do to that write.
StreamsComeBack ==
  \A h \in Handles, i \in Index : i \in inUse[h] ~> i \notin inUse[h]

Offered(h) == phase[h] \in {"ready", "erased"}

NoLease == <<NoHandle, 0>>

Lease == INSTANCE StreamLease WITH
  streams <- [h \in Handles |-> IF Offered(h) THEN size[h] ELSE 0],
  lease <- [r \in Reqs |-> IF marked[r] THEN <<hdl[r], idx[r]>> ELSE NoLease],
  busy <- [r \in Reqs |-> pc[r] = "sent" /\ code[r] = "too_many_requests"]

\* The flags, the search under the mutex and the release after the reply lend
\* streams as StreamLease promises: never the same to two writes, the first
\* that is not lent, and a 429 only if every stream of the handle is lent to
\* another write (it may be answered: in_use_ is cleared after the reply).  No
\* stream is lost to the clients by an earlier failure.
ImplementsLease == Lease!Spec

(* What the documentation or a comment says and the code does not do *)

OpenStreams == {s \in Handles \X Index : s[2] \in open[s[1]]}

\* README.md: max_number_of_parallel_write_streams is the maximum number of
\* streams "that can be reserved by the HTTP API across all clients".
LimitAcrossClients == Cardinality(OpenStreams) <= MaxStreams

\* The comment on the members of incremental_write: "Instances of this class
\* own all state passed from op_write."  So what a write that goes well points
\* to is there until its last use, which is the scope exit after the reply.
ContextOutlivesUse ==
  \A r \in Reqs :
    UsesContext(r) /\ code[r] \in {"none", "ok"} => phase[hdl[r]] = "ready"
=============================================================================
