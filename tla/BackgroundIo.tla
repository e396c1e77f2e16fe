---------------------------- MODULE BackgroundIo ----------------------------
(***************************************************************************)
(* How requests share the threads and the iRODS connections of the server: *)
(* the threads that run the handlers of the io_context, the background     *)
(* thread pool with its FIFO queue of tasks                                *)
(* (core/src/globals.cpp: background_task), and the connection pool        *)
(* (core/src/common.cpp: get_connection).                                  *)
(*                                                                         *)
(* There are four kinds of requests, told apart by where they take a       *)
(* connection and how long they keep it:                                   *)
(*   short   one background task (most operations of the endpoints);       *)
(*   read    op_read: one task, then one task per chunk of a large object,  *)
(*           with the socket in between, on a dedicated connection;        *)
(*   write   op_write without a parallel-write-handle: one task, then one   *)
(*           task per chunk of the body, on the connection of the first;   *)
(*   stream  op_write_streaming without a handle: the connection is taken  *)
(*           in the handler of the io_context, and kept for the transfer.  *)
(* get_connection returns when a connection of the pool is free, and the   *)
(* thread that calls it does nothing else until then.                      *)
(***************************************************************************)
EXTENDS Integers, FiniteSets, Sequences

CONSTANTS
  Reqs,       \* The requests of a burst.
  Kinds,      \* The kinds of requests in it.
  IoThreads,  \* requests/threads
  BgThreads,  \* background_io/threads
  PoolSize,   \* connection_pool/size
  MaxChunks   \* Bound: the chunks of a transfer; one that fails has fewer.

ASSUME ConstantsAssumption ==
  /\ IsFiniteSet(Reqs)
  /\ Kinds \subseteq {"short", "read", "write", "stream"}
  /\ {IoThreads, BgThreads, PoolSize} \subseteq Nat \ {0}
  /\ MaxChunks \in Nat

VARIABLES
  compat, \* enable_4_2_compatibility: a new connection for every request.
  kind,   \* kind[r]: what r asks for; none before and after it is serviced.
  left,   \* left[r]: the chunks still to be moved.
  conn,   \* conn[r]: the connection r holds, or waits for in get_connection.
  where,  \* where[r]: where the code of r is, see Places.
  begun,  \* begun[r]: r's transfer object exists (incremental_read, ...).
  queue   \* The queue of background tasks; a task is named by its request.

vars == <<compat, kind, left, conn, where, begun, queue>>

Places == {
  "unsent",    \* The client has not sent it.
  "ready",     \* A handler of it is ready to run.
  "io",        \* A thread of the io_context runs its handler.
  "queued",    \* A task of it is in the queue.
  "bg",        \* A background thread runs its task.
  "socket",    \* An asynchronous read or write on its socket is under way.
  "answered"}  \* The reply is sent, or the connection of the client is shut.

At(place) == {r \in Reqs : where[r] = place}

Init ==
  /\ compat \in BOOLEAN
  /\ kind = [r \in Reqs |-> "none"]
  /\ left = [r \in Reqs |-> 0]
  /\ conn = [r \in Reqs |-> "none"]
  /\ where = [r \in Reqs |-> "unsent"]
  /\ begun = [r \in Reqs |-> FALSE]
  /\ queue = <<>>

Move(r, place) == where' = [where EXCEPT ![r] = place]

\* background_task: the task is posted to the pool's queue.
Post(r) == Move(r, "queued") /\ queue' = Append(queue, r)

ReleaseConnection(r) == conn' = [conn EXCEPT ![r] = "none"]

\* The reply, and the end of the objects that hold the connection.
Answer(r) ==
  /\ Move(r, "answered")
  /\ ReleaseConnection(r)
  /\ kind' = [kind EXCEPT ![r] = "none"]
  /\ left' = [left EXCEPT ![r] = 0]
  /\ begun' = [begun EXCEPT ![r] = FALSE]
  /\ UNCHANGED <<compat, queue>>

-----------------------------------------------------------------------------
(* The threads *)

\* session::on_read_header and on_read_body: the request is here.
Arrive(r, k) ==
  /\ where[r] = "unsent"
  /\ Move(r, "ready")
  /\ kind' = [kind EXCEPT ![r] = k]
  /\ left' = [left EXCEPT ![r] = MaxChunks]
  /\ UNCHANGED <<compat, conn, begun, queue>>

RunHandler(r) ==
  /\ where[r] = "ready"
  /\ Cardinality(At("io")) < IoThreads
  /\ Move(r, "io")
  /\ UNCHANGED <<compat, kind, left, conn, begun, queue>>

RunTask(r) ==
  /\ queue # <<>>
  /\ r = Head(queue)
  /\ Cardinality(At("bg")) < BgThreads
  /\ queue' = Tail(queue)
  /\ Move(r, "bg")
  /\ UNCHANGED <<compat, kind, left, conn, begun>>

\* The operation of the socket is over: done, failed, or timed out.
SocketDone(r) ==
  /\ where[r] = "socket"
  /\ Move(r, "ready")
  /\ UNCHANGED <<compat, kind, left, conn, begun, queue>>

-----------------------------------------------------------------------------
(* The first part of an operation *)

\* The operation's handler posts a task that does the rest.
HandOver(r) ==
  /\ where[r] = "io"
  /\ ~begun[r]
  /\ kind[r] # "stream"
  /\ Post(r)
  /\ UNCHANGED <<compat, kind, left, conn, begun>>

\* The call of get_connection: op_write_streaming makes it in its handler,
\* the others in their task.
WantConnection(r) ==
  /\ where[r] = IF kind[r] = "stream" THEN "io" ELSE "bg"
  /\ ~begun[r]
  /\ conn[r] = "none"
  /\ conn' = [conn EXCEPT ![r] = "wanted"]
  /\ UNCHANGED <<compat, kind, left, where, begun, queue>>

UsesPool == ~compat

Pooled == {r \in Reqs : conn[r] = "pooled"}

\* Its return: with a new connection, or with one of the pool that is free.
GetConnection(r) ==
  /\ conn[r] = "wanted"
  /\ \/ ~UsesPool /\ conn' = [conn EXCEPT ![r] = "own"]
     \/ /\ UsesPool
        /\ Cardinality(Pooled) < PoolSize
        /\ conn' = [conn EXCEPT ![r] = "pooled"]
  /\ UNCHANGED <<compat, kind, left, where, begun, queue>>

Connected(r) == conn[r] \in {"pooled", "own"}

\* The request is refused, short, for a small object, or fails.
AnswerAtOnce(r) ==
  /\ where[r] \in {"io", "bg"}
  /\ ~begun[r]
  /\ conn[r] # "wanted"
  /\ Answer(r)

\* Faulty variant: the transfer goes on with the connection of the request.
SharedConnection(r) == UNCHANGED conn

\* A large read moves to a connection that is not the pool's.
DedicatedConnection(r) == conn' = [conn EXCEPT ![r] = "own"]

\* incremental_read::start writes the header, then reads in tasks.
BeginRead(r) ==
  /\ where[r] = "bg"
  /\ kind[r] = "read"
  /\ ~begun[r]
  /\ Connected(r)
  /\ begun' = [begun EXCEPT ![r] = TRUE]
  /\ DedicatedConnection(r)
  /\ Move(r, "socket")
  /\ UNCHANGED <<compat, kind, left, queue>>

\* incremental_write::start posts the task of the first chunk.
BeginWrite(r) ==
  /\ where[r] = "bg"
  /\ kind[r] = "write"
  /\ ~begun[r]
  /\ Connected(r)
  /\ begun' = [begun EXCEPT ![r] = TRUE]
  /\ Post(r)
  /\ UNCHANGED <<compat, kind, left, conn>>

\* streaming_write::start reads from the socket.
BeginStream(r) ==
  /\ where[r] = "io"
  /\ kind[r] = "stream"
  /\ ~begun[r]
  /\ Connected(r)
  /\ begun' = [begun EXCEPT ![r] = TRUE]
  /\ Move(r, "socket")
  /\ UNCHANGED <<compat, kind, left, conn, queue>>

-----------------------------------------------------------------------------
(* The transfer *)

\* The completion handler of the socket: the next task, or the end.
Continue(r) ==
  /\ where[r] = "io"
  /\ begun[r]
  /\ \/ Post(r) /\ UNCHANGED <<compat, kind, left, conn, begun>>
     \/ Answer(r)

\* Faulty variant: the tasks never stop.
AlwaysMore(r) == TRUE

MoreChunks(r) == left[r] > 0

\* A chunk is moved by a task.  A write posts the next task itself; a read
\* and a stream go through the socket.
MoveChunk(r) ==
  /\ where[r] = "bg"
  /\ begun[r]
  /\ MoreChunks(r)
  /\ left' = [left EXCEPT ![r] = @ - 1]
  /\ IF kind[r] = "write" THEN Post(r) ELSE Move(r, "socket") /\ UNCHANGED queue
  /\ UNCHANGED <<compat, kind, conn, begun>>

\* The task finds nothing left, or its stream in a bad state.
EndTransfer(r) ==
  /\ where[r] = "bg"
  /\ begun[r]
  /\ Answer(r)

-----------------------------------------------------------------------------

\* What the server and its iRODS server do for r.
Step(r) ==
  RunHandler(r) \/ RunTask(r) \/ SocketDone(r) \/ HandOver(r)
    \/ WantConnection(r) \/ GetConnection(r) \/ AnswerAtOnce(r) \/ BeginRead(r) \/ BeginWrite(r)
    \/ BeginStream(r) \/ Continue(r) \/ MoveChunk(r) \/ EndTransfer(r)

Next == \E r \in Reqs : (\E k \in Kinds : Arrive(r, k)) \/ Step(r)

Spec == Init /\ [][Next]_vars

(***************************************************************************)
(* The threads run: each takes a handler or a task when there is one, and  *)
(* the iRODS server and the sockets answer (session::do_read_header sets a *)
(* timeout).  A request is answered once, so a connection that comes free  *)
(* is refused to a waiting thread only finitely often.                     *)
(***************************************************************************)
FairSpec == Spec /\ \A r \in Reqs : WF_vars(Step(r))

-----------------------------------------------------------------------------
(* What the code promises *)

\* The type of every variable.
TypeOK ==
  /\ compat \in BOOLEAN
  /\ kind \in [Reqs -> Kinds \cup {"none"}]
  /\ left \in [Reqs -> 0 .. MaxChunks]
  /\ conn \in [Reqs -> {"none", "wanted", "pooled", "own"}]
  /\ where \in [Reqs -> Places]
  /\ begun \in [Reqs -> BOOLEAN]
  /\ queue \in Seq(Reqs)

\* A read keeps no connection of the pool while it is in a queue or waits for
\* its client ("the reads must have a dedicated connection"), nor does a short
\* operation: who holds one is being served by a thread.
ReadsLeaveThePool ==
  \A r \in Pooled : kind[r] \in {"short", "read"} => where[r] \in {"io", "bg"}

Unfinished(r) == where[r] \notin {"unsent", "answered"}

\* r is not waiting for a thread or for a connection.
CanMove(r) ==
  \/ where[r] = "socket"
  \/ where[r] = "ready" /\ Cardinality(At("io")) < IoThreads
  \/ where[r] = "queued" /\ r = Head(queue) /\ Cardinality(At("bg")) < BgThreads
  \/ where[r] \in {"io", "bg"} /\ conn[r] # "wanted"
  \/ conn[r] = "wanted" /\ (UsesPool => Cardinality(Pooled) < PoolSize)

\* The writes in progress, which keep a connection while they wait.
Keepers == {r \in Reqs : Unfinished(r) /\ kind[r] \in {"write", "stream"}}

\* One connection of the pool is not some write's.
WritesLeaveRoom == UsesPool => Cardinality(Keepers) < PoolSize

\* The requests never all wait for one another, however many reads and short
\* operations there are, as long as the writes leave one pooled connection to
\* them ("the reads must have a dedicated connection").
NeverStuck ==
  WritesLeaveRoom /\ (\E r \in Reqs : Unfinished(r)) => \E r \in Reqs : CanMove(r)

\* So every request of a burst with few writes at a time is answered.
AnsweredIfRoom ==
  []WritesLeaveRoom => \A r \in Reqs : where[r] = "ready" ~> where[r] = "answered"

(* What a comment says and the code does not do *)

\* op_read leaves the connection pool alone in order not to cause "an
\* unresponsive server": never are all threads waiting for connections whose
\* holders wait for a thread.
EveryRequestAnswered == \A r \in Reqs : where[r] = "ready" ~> where[r] = "answered"
=============================================================================
