--------------------------- MODULE ShutdownProofs ---------------------------
(***************************************************************************)
(* Safety of BackgroundIo and of Shutdown, for every number of requests,   *)
(* threads and connections: no circle of waits is closed while the writes  *)
(* leave one connection to the others; and whenever the signal comes, main *)
(* destroys nothing that somebody still uses.                              *)
(***************************************************************************)
EXTENDS Shutdown, FiniteSetTheorems, TLAPS

(***************************************************************************)
(* BackgroundIo                                                            *)
(***************************************************************************)

KindOK == \A r \in Reqs : Unfinished(r) => kind[r] \in Kinds

\* The queue holds the requests that are queued, each once.
QueueOK ==
  /\ \A r \in Reqs :
       where[r] = "queued" <=> \E i \in 1 .. Len(queue) : queue[i] = r
  /\ \A i, j \in 1 .. Len(queue) : queue[i] = queue[j] => i = j

\* A transfer has its connection, and a read's is its own.
TransferOK ==
  \A r \in Reqs : begun[r] => /\ conn[r] \in {"pooled", "own"}
                              /\ kind[r] = "read" => conn[r] = "own"

\* Before its transfer a request has a connection, or waits for one, only on
\* the thread that called get_connection; a short operation has no transfer.
HolderOK ==
  \A r \in Reqs :
    /\ conn[r] # "none" /\ ~begun[r] =>
         where[r] = IF kind[r] = "stream" THEN "io" ELSE "bg"
    /\ begun[r] => Unfinished(r) /\ kind[r] # "short"

IInv == TypeOK /\ KindOK /\ QueueOK /\ TransferOK /\ HolderOK

-----------------------------------------------------------------------------
(* The queue *)

\* background_task appends a task that is not in the queue.
LEMMA PostKeepsQueue ==
  ASSUME TypeOK, QueueOK, NEW r \in Reqs, where[r] # "queued", Post(r)
  PROVE  QueueOK' /\ queue' \in Seq(Reqs)
<1>1. /\ queue' \in Seq(Reqs) /\ Len(queue') = Len(queue) + 1
      /\ Len(queue) \in Nat
      /\ \A i \in 1 .. Len(queue) : queue'[i] = queue[i]
      /\ queue'[Len(queue) + 1] = r
  BY DEF TypeOK, Post
<1>2. where' = [where EXCEPT ![r] = "queued"] /\ where \in [Reqs -> Places]
  BY DEF TypeOK, Post, Move
<1>3. \A i \in 1 .. Len(queue) : queue[i] # r
  BY DEF QueueOK
<1>4. \A q \in Reqs :
        where'[q] = "queued" <=> \E i \in 1 .. Len(queue') : queue'[i] = q
  <2>1. \A q \in Reqs :
          where'[q] = "queued" => \E i \in 1 .. Len(queue') : queue'[i] = q
    BY <1>1, <1>2 DEF QueueOK
  <2>2. \A i \in 1 .. Len(queue') : where'[queue'[i]] = "queued"
    <3> SUFFICES ASSUME NEW i \in 1 .. Len(queue')
                 PROVE  where'[queue'[i]] = "queued"
      OBVIOUS
    <3>1. CASE i \in 1 .. Len(queue)
      <4>1. queue[i] \in Reqs /\ where[queue[i]] = "queued"
        BY <3>1 DEF QueueOK, TypeOK
      <4> QED BY <1>1, <1>2, <3>1, <4>1
    <3>2. CASE i = Len(queue) + 1
      BY <1>1, <1>2, <3>2
    <3> QED BY <1>1, <3>1, <3>2
  <2> QED BY <2>1, <2>2
<1>5. \A i, j \in 1 .. Len(queue') : queue'[i] = queue'[j] => i = j
  BY <1>1, <1>3 DEF QueueOK
<1> QED BY <1>1, <1>4, <1>5 DEF QueueOK

\* A background thread takes the first task.
LEMMA TakeKeepsQueue ==
  ASSUME TypeOK, QueueOK, NEW r \in Reqs, RunTask(r)
  PROVE  QueueOK' /\ queue' \in Seq(Reqs) /\ where[r] = "queued"
<1>1. /\ queue' \in Seq(Reqs) /\ Len(queue') = Len(queue) - 1
      /\ Len(queue) \in Nat \ {0}
      /\ \A i \in 1 .. Len(queue') : queue'[i] = queue[i + 1]
      /\ queue[1] = r
  BY DEF TypeOK, RunTask
<1>2. where' = [where EXCEPT ![r] = "bg"] /\ where \in [Reqs -> Places]
  BY DEF TypeOK, RunTask, Move
<1>3. where[r] = "queued"
  BY <1>1 DEF QueueOK
<1>4. \A q \in Reqs :
        where'[q] = "queued" <=> \E i \in 1 .. Len(queue') : queue'[i] = q
  <2> SUFFICES ASSUME NEW q \in Reqs
               PROVE  where'[q] = "queued" <=>
                        \E i \in 1 .. Len(queue') : queue'[i] = q
    OBVIOUS
  <2>1. CASE q = r
    BY <1>1, <1>2, <2>1 DEF QueueOK
  <2>2. ASSUME q # r, where[q] = "queued"
        PROVE  \E i \in 1 .. Len(queue') : queue'[i] = q
    <3>1. PICK i \in 1 .. Len(queue) : queue[i] = q
      BY <2>2 DEF QueueOK
    <3>2. i - 1 \in 1 .. Len(queue')
      BY <1>1, <2>2, <3>1
    <3>3. queue'[i - 1] = queue[(i - 1) + 1] /\ (i - 1) + 1 = i
      BY <1>1, <3>1, <3>2
    <3> QED BY <3>1, <3>2, <3>3
  <2>3. ASSUME q # r, NEW i \in 1 .. Len(queue'), queue'[i] = q
        PROVE  where[q] = "queued"
    BY <1>1, <2>3 DEF QueueOK
  <2> QED BY <1>2, <2>1, <2>2, <2>3
<1>5. \A i, j \in 1 .. Len(queue') : queue'[i] = queue'[j] => i = j
  BY <1>1 DEF QueueOK
<1> QED BY <1>1, <1>3, <1>4, <1>5 DEF QueueOK

\* The other actions neither put a request in the queue nor take one out.
LEMMA OthersKeepQueue ==
  ASSUME TypeOK, QueueOK, UNCHANGED queue,
         \A q \in Reqs : where'[q] = "queued" <=> where[q] = "queued"
  PROVE  QueueOK'
BY DEF QueueOK

-----------------------------------------------------------------------------
(* The inductive step *)

LEMMA TypeStep ==
  ASSUME IInv, NEW r \in Reqs, (\E k \in Kinds : Arrive(r, k)) \/ Step(r)
  PROVE  TypeOK'
<1> USE DEF IInv, TypeOK, Places, Move
<1>1. ASSUME NEW k \in Kinds, Arrive(r, k)
      PROVE  TypeOK'
  BY <1>1, ConstantsAssumption DEF Arrive
<1>2. CASE RunHandler(r) \/ SocketDone(r)
  BY <1>2 DEF RunHandler, SocketDone
<1>3. CASE RunTask(r)
  BY <1>3, TakeKeepsQueue DEF RunTask
<1>4. CASE WantConnection(r) \/ GetConnection(r)
  BY <1>4 DEF WantConnection, GetConnection
<1>5. ASSUME where[r] # "queued", Post(r)
      PROVE  where' \in [Reqs -> Places] /\ queue' \in Seq(Reqs)
  BY <1>5, PostKeepsQueue DEF Post
<1>6. ASSUME Answer(r)
      PROVE  TypeOK'
  BY <1>6, ConstantsAssumption DEF Answer, ReleaseConnection
<1>7. CASE HandOver(r)
  BY <1>5, <1>7 DEF HandOver
<1>8. CASE AnswerAtOnce(r) \/ EndTransfer(r)
  BY <1>6, <1>8 DEF AnswerAtOnce, EndTransfer
<1>9. CASE BeginRead(r) \/ BeginStream(r)
  BY <1>9 DEF BeginRead, BeginStream, DedicatedConnection
<1>10. CASE BeginWrite(r)
  BY <1>5, <1>10 DEF BeginWrite
<1>11. CASE Continue(r)
  BY <1>5, <1>6, <1>11 DEF Continue
<1>12. CASE MoveChunk(r)
  <2>1. left' \in [Reqs -> 0 .. MaxChunks]
    BY <1>12, ConstantsAssumption DEF MoveChunk, MoreChunks
  <2> QED BY <1>5, <1>12, <2>1 DEF MoveChunk
<1> QED
  BY <1>1, <1>2, <1>3, <1>4, <1>7, <1>8, <1>9, <1>10, <1>11, <1>12 DEF Step

LEMMA QueueStep ==
  ASSUME IInv, NEW r \in Reqs, (\E k \in Kinds : Arrive(r, k)) \/ Step(r)
  PROVE  QueueOK'
<1> USE DEF IInv
<1>1. ASSUME NEW place \in Places \ {"queued"}, Move(r, place),
             where[r] # "queued", UNCHANGED queue
      PROVE  QueueOK'
  BY <1>1, OthersKeepQueue DEF TypeOK, Move
<1>2. {"ready", "io", "socket", "answered"} \subseteq Places \ {"queued"}
  BY DEF Places
<1>3. ASSUME NEW k \in Kinds, Arrive(r, k)
      PROVE  QueueOK'
  BY <1>1, <1>2, <1>3 DEF Arrive
<1>4. CASE RunHandler(r) \/ SocketDone(r)
  BY <1>1, <1>2, <1>4 DEF RunHandler, SocketDone
<1>5. CASE RunTask(r)
  BY <1>5, TakeKeepsQueue
<1>6. CASE WantConnection(r) \/ GetConnection(r)
  BY <1>6, OthersKeepQueue DEF WantConnection, GetConnection
<1>7. ASSUME where[r] # "queued", Answer(r)
      PROVE  QueueOK'
  BY <1>1, <1>2, <1>7 DEF Answer
<1>8. CASE HandOver(r) \/ BeginWrite(r)
  BY <1>8, PostKeepsQueue DEF HandOver, BeginWrite
<1>9. CASE AnswerAtOnce(r) \/ EndTransfer(r)
  BY <1>7, <1>9 DEF AnswerAtOnce, EndTransfer
<1>10. CASE BeginRead(r) \/ BeginStream(r)
  BY <1>1, <1>2, <1>10 DEF BeginRead, BeginStream
<1>11. CASE Continue(r)
  BY <1>7, <1>11, PostKeepsQueue DEF Continue
<1>12. CASE MoveChunk(r)
  BY <1>1, <1>2, <1>12, PostKeepsQueue DEF MoveChunk
<1> QED
  BY <1>3, <1>4, <1>5, <1>6, <1>8, <1>9, <1>10, <1>11, <1>12 DEF Step

LEMMA RequestStep ==
  ASSUME IInv, NEW r \in Reqs, (\E k \in Kinds : Arrive(r, k)) \/ Step(r)
  PROVE  KindOK' /\ TransferOK' /\ HolderOK'
<1> USE DEF IInv, TypeOK, KindOK, TransferOK, HolderOK, Unfinished, Move
<1>1. ASSUME NEW k \in Kinds, Arrive(r, k)
      PROVE  KindOK' /\ TransferOK' /\ HolderOK'
  BY <1>1 DEF Arrive
<1>2. CASE RunHandler(r) \/ SocketDone(r)
  BY <1>2 DEF RunHandler, SocketDone
<1>3. CASE RunTask(r)
  BY <1>3, TakeKeepsQueue DEF RunTask
<1>4. CASE WantConnection(r) \/ GetConnection(r)
  BY <1>4 DEF WantConnection, GetConnection
<1>5. ASSUME Answer(r)
      PROVE  KindOK' /\ TransferOK' /\ HolderOK'
  BY <1>5 DEF Answer, ReleaseConnection
<1>6. CASE HandOver(r)
  BY <1>6 DEF HandOver, Post
<1>7. CASE AnswerAtOnce(r) \/ EndTransfer(r)
  BY <1>5, <1>7 DEF AnswerAtOnce, EndTransfer
<1>8. CASE BeginRead(r)
  BY <1>8 DEF BeginRead, DedicatedConnection, Connected
<1>9. CASE BeginWrite(r)
  BY <1>9 DEF BeginWrite, Post, Connected
<1>10. CASE BeginStream(r)
  BY <1>10 DEF BeginStream, Connected
<1>11. CASE Continue(r)
  BY <1>5, <1>11 DEF Continue, Post
<1>12. CASE MoveChunk(r)
  BY <1>12 DEF MoveChunk, Post
<1> QED
  BY <1>1, <1>2, <1>3, <1>4, <1>6, <1>7, <1>8, <1>9, <1>10, <1>11, <1>12
     DEF Step

LEMMA InitOK == Init => IInv
BY ConstantsAssumption DEF Init, IInv, TypeOK, KindOK, Unfinished,
   QueueOK, TransferOK, HolderOK, Places

LEMMA NothingChanges == IInv /\ UNCHANGED vars => IInv'
BY DEF vars, IInv, TypeOK, KindOK, Unfinished, QueueOK, TransferOK, HolderOK

LEMMA RequestKeepsInvariant ==
  ASSUME IInv, NEW r \in Reqs, (\E k \in Kinds : Arrive(r, k)) \/ Step(r)
  PROVE  IInv'
BY TypeStep, QueueStep, RequestStep DEF IInv

THEOREM Invariance == Spec => []IInv
<1>1. IInv /\ [Next]_vars => IInv'
  BY NothingChanges, RequestKeepsInvariant DEF Next
<1> QED BY InitOK, <1>1, PTL DEF Spec

-----------------------------------------------------------------------------
(* What follows from it *)

\* Every variable keeps its type.
THEOREM TypeCorrect == Spec => []TypeOK
<1>1. IInv => TypeOK
  BY DEF IInv
<1> QED BY <1>1, Invariance, PTL

\* Who holds a connection before its transfer is being served.
LEMMA HoldersAreServed == IInv => ReadsLeaveThePool
BY DEF IInv, TransferOK, HolderOK, ReadsLeaveThePool, Pooled

\* op_read's dedicated connection: no read and no short operation keeps a
\* connection of the pool from one task to the next.
THEOREM ReadsKeepNoConnection == Spec => []ReadsLeaveThePool
BY HoldersAreServed, Invariance, PTL

\* The chain of waits ends at a request that a thread serves.
LEMMA ChainEnds == IInv => NeverStuck
<1> SUFFICES ASSUME IInv, WritesLeaveRoom, NEW r \in Reqs, Unfinished(r)
             PROVE  \E q \in Reqs : CanMove(q)
  BY DEF NeverStuck
<1>1. IoThreads \in Nat \ {0} /\ BgThreads \in Nat \ {0}
      /\ PoolSize \in Nat \ {0}
  BY ConstantsAssumption
\* Fewer than n requests are in S when there are none.
<1>2. ASSUME NEW S \in SUBSET Reqs, NEW n \in Nat \ {0}, S = {}
      PROVE  Cardinality(S) < n
  BY <1>2, FS_EmptySet
\* A thread that has begun to wait for a connection ends the chain.
<1>3. ASSUME NEW q \in Reqs, conn[q] = "wanted"
      PROVE  \E p \in Reqs : CanMove(p)
  <2>1. CASE UsesPool => Cardinality(Pooled) < PoolSize
    BY <1>3, <2>1 DEF CanMove
  <2>2. CASE UsesPool /\ ~(Cardinality(Pooled) < PoolSize)
    <3>1. IsFiniteSet(Keepers) /\ IsFiniteSet(Pooled)
      BY ConstantsAssumption, FS_Subset DEF Keepers, Pooled
    <3>2. PICK p \in Pooled : p \notin Keepers
      <4>1. SUFFICES ASSUME Pooled \subseteq Keepers PROVE FALSE
        OBVIOUS
      <4>2. Cardinality(Pooled) <= Cardinality(Keepers)
        BY <3>1, <4>1, FS_Subset
      <4>3. Cardinality(Pooled) \in Nat /\ Cardinality(Keepers) \in Nat
        BY <3>1, FS_CardinalityType
      <4> QED BY <1>1, <2>2, <4>2, <4>3 DEF WritesLeaveRoom
    <3>3. p \in Reqs /\ conn[p] = "pooled"
      BY DEF Pooled
    <3>4. Unfinished(p) /\ kind[p] \in {"short", "read"}
      BY <3>2, <3>3, ConstantsAssumption
         DEF IInv, HolderOK, KindOK, Unfinished, Keepers
    <3>5. where[p] \in {"io", "bg"}
      BY <3>3, <3>4 DEF IInv, HolderOK, TransferOK
    <3> QED BY <3>3, <3>5 DEF CanMove
  <2> QED BY <2>1, <2>2
<1>4. ASSUME NEW q \in Reqs, where[q] \in {"io", "bg"}
      PROVE  \E p \in Reqs : CanMove(p)
  BY <1>3, <1>4 DEF CanMove
<1>5. CASE where[r] = "queued"
  <2>1. Head(queue) \in Reqs /\ where[Head(queue)] = "queued"
    <3>1. Len(queue) \in Nat \ {0} /\ queue \in Seq(Reqs)
      BY <1>5 DEF IInv, QueueOK, TypeOK
    <3>2. Head(queue) = queue[1] /\ queue[1] \in Reqs
      BY <3>1
    <3> QED BY <3>1, <3>2 DEF IInv, QueueOK
  <2>2. CASE At("bg") = {}
    BY <1>1, <1>2, <2>1, <2>2 DEF CanMove, At
  <2>3. CASE At("bg") # {}
    BY <1>4, <2>3 DEF At
  <2> QED BY <2>2, <2>3
<1>6. CASE where[r] = "ready"
  <2>1. CASE At("io") = {}
    BY <1>1, <1>2, <1>6, <2>1 DEF CanMove, At
  <2>2. CASE At("io") # {}
    BY <1>4, <2>2 DEF At
  <2> QED BY <2>1, <2>2
<1>7. CASE where[r] = "socket"
  BY <1>7 DEF CanMove
<1> QED BY <1>4, <1>5, <1>6, <1>7 DEF IInv, TypeOK, Places, Unfinished

\* While the writes leave one pooled connection to the others, some request can
\* always move: the chain of waits (handler for a thread of the io_context,
\* task for a background thread, thread for a connection) ends at a request
\* that a thread serves.
THEOREM ReadsNeverStuck == Spec => []NeverStuck
BY ChainEnds, Invariance, PTL

(***************************************************************************)
(* Shutdown                                                                *)
(***************************************************************************)

\* What is empty from each phase on: the handlers that run, the tasks that
\* run, the queue of tasks, the handlers and sockets that wait.
Emptied ==
  /\ phase \in Destroying \cup {"joining tasks", "joined"} => At("io") = {}
  /\ phase \in Destroying \cup {"joined"} => At("bg") = {}
  /\ phase \in {"no tasks", "no handlers", "ended"} => At("queued") = {}
  /\ phase \in {"no handlers", "ended"} => At("ready") = {} /\ At("socket") = {}

\* The inductive invariant: BackgroundIo's, and the order of the end.
SIInv == IInv /\ phase \in Phases /\ Emptied

-----------------------------------------------------------------------------

\* A step of a request is one of BackgroundIo, of a request that was not
\* waiting, unless the threads that serve it still take up work.
LEMMA ServeIsAStep ==
  ASSUME IInv, NEW r \in Reqs, Serve(r)
  PROVE  /\ (\E k \in Kinds : Arrive(r, k)) \/ Step(r)
         /\ UNCHANGED phase
         /\ phase \in Serving \/ where'[r] \notin {"ready", "io"}
                              \/ where'[r] = where[r]
         /\ \/ phase \in Serving \cup {"stopped"}
            \/ /\ where[r] \in {"io", "bg"}
               /\ where'[r] = "bg" => where[r] = "bg"
         /\ \A q \in Reqs \ {r} : where'[q] = where[q]
<1> USE DEF IInv, TypeOK, Move, Post, Answer
<1>1. UNCHANGED phase /\ ((\E k \in Kinds : Arrive(r, k)) \/ Step(r))
  BY DEF Serve, Step
<1>2. ASSUME NEW k \in Kinds, phase \in Serving, Arrive(r, k)
      PROVE  \A q \in Reqs \ {r} : where'[q] = where[q]
  BY <1>2 DEF Arrive
<1>3. ASSUME phase \in Serving, RunHandler(r) \/ SocketDone(r)
      PROVE  \A q \in Reqs \ {r} : where'[q] = where[q]
  BY <1>3 DEF RunHandler, SocketDone
<1>4. ASSUME TasksRun, RunTask(r)
      PROVE  /\ phase \in Serving \cup {"stopped"} /\ where'[r] = "bg"
             /\ \A q \in Reqs \ {r} : where'[q] = where[q]
  BY <1>4 DEF RunTask, TasksRun
<1> DEFINE Goes == /\ where[r] \in {"io", "bg"}
                   /\ where'[r] \in {where[r], "queued", "socket", "answered"}
                   /\ \A q \in Reqs \ {r} : where'[q] = where[q]
<1>5. CASE HandOver(r) \/ WantConnection(r) \/ AnswerAtOnce(r)
  <2>1. Goes
    BY <1>5 DEF HandOver, WantConnection, AnswerAtOnce
  <2> QED
    BY <2>1, <1>1
<1>6. CASE GetConnection(r)
  <2>1. Goes
    BY <1>6 DEF GetConnection, HolderOK, TransferOK
  <2> QED
    BY <2>1, <1>1
<1>7. CASE BeginRead(r) \/ BeginWrite(r) \/ BeginStream(r)
  <2>1. Goes
    BY <1>7 DEF BeginRead, BeginWrite, BeginStream
  <2> QED
    BY <2>1, <1>1
<1>8. CASE Continue(r) \/ MoveChunk(r) \/ EndTransfer(r)
  <2>1. Goes
    BY <1>8 DEF Continue, MoveChunk, EndTransfer
  <2> QED
    BY <2>1, <1>1
<1> QED
  BY <1>1, <1>2, <1>3, <1>4, <1>5, <1>6, <1>7, <1>8 DEF Serve

LEMMA ServeOK ==
  ASSUME SIInv, NEW r \in Reqs, Serve(r)
  PROVE  SIInv'
<1> USE DEF SIInv
<1>1. IInv' /\ phase' = phase
  BY ServeIsAStep, RequestKeepsInvariant
<1>2. CASE phase \in Serving \cup {"stopped", "joining"}
  BY <1>1, <1>2 DEF Emptied, Serving, Destroying
<1>3. CASE phase = "joining tasks"
  <2>1. \A q \in Reqs : where'[q] # "io"
    BY <1>3, ServeIsAStep DEF Emptied, At, Serving
  <2> QED
    BY <1>1, <1>3, <2>1 DEF Emptied, At, Destroying
<1>4. CASE phase \in Destroying \cup {"joined"}
  <2>1. where[r] \notin {"io", "bg"}
    BY <1>4 DEF Emptied, At
  <2>2. where[r] \in {"io", "bg"}
    BY <1>4, ServeIsAStep DEF Serving, Destroying
  <2> QED
    BY <2>1, <2>2
<1> QED
  BY <1>2, <1>3, <1>4 DEF Phases

\* The steps of main that only go on.
LEMMA EnterOK ==
  ASSUME SIInv,
         Signal \/ HandleSignal \/ StopThreads \/ JoinHandlers \/ JoinTasks
           \/ CloseMapper \/ DestroyPool
  PROVE  SIInv'
<1> USE DEF SIInv
<1>1. UNCHANGED vars
  BY DEF Signal, HandleSignal, StopThreads, JoinHandlers, JoinTasks, CloseMapper,
         DestroyPool, Enter
<1>2. IInv' /\ \A place \in Places : At(place)' = At(place)
  BY <1>1, NothingChanges DEF vars, At
<1>3. phase' \in Phases /\ Emptied'
  <2>1. CASE Signal \/ HandleSignal \/ StopThreads
    BY <2>1 DEF Signal, HandleSignal, StopThreads, Enter, Emptied, Phases, Serving,
                Destroying
  <2>2. CASE JoinHandlers \/ JoinTasks \/ CloseMapper \/ DestroyPool
    BY <1>2, <2>2 DEF JoinHandlers, JoinTasks, CloseMapper, DestroyPool, Enter, Idle,
                      Emptied, Phases, Destroying, Places, PoolAfter
  <2> QED
    BY <2>1, <2>2
<1> QED
  BY <1>2, <1>3

\* What is destroyed is gone; the rest is where it was.
LEMMA DestroyOK ==
  ASSUME SIInv, DestroyTasks \/ DestroyHandlers
  PROVE  SIInv'
<1> USE DEF SIInv, IInv
<1>1. PICK gone \in SUBSET Reqs :
        /\ Destroy(gone)
        /\ DestroyTasks => gone = At("queued")
        /\ DestroyHandlers => gone = At("ready") \cup At("socket")
  <2>1. CASE DestroyTasks
    BY <2>1 DEF DestroyTasks, DestroyHandlers, At
  <2>2. CASE DestroyHandlers
    BY <2>2 DEF DestroyTasks, DestroyHandlers, At
  <2> QED
    BY <2>1, <2>2
<1>2. \A r \in Reqs :
        /\ where'[r] = IF r \in gone THEN "answered" ELSE where[r]
        /\ conn'[r] = IF r \in gone THEN "none" ELSE conn[r]
        /\ kind'[r] = IF r \in gone THEN "none" ELSE kind[r]
        /\ begun'[r] = (begun[r] /\ r \notin gone)
  BY <1>1 DEF Destroy
<1>3. TypeOK'
  <2>1. compat' \in BOOLEAN
    BY <1>1, Zenon DEF Destroy, TypeOK
  <2>2. queue' \in Seq(Reqs)
    <3>1. queue' = <<>> \/ queue' = queue
      BY DEF DestroyTasks, DestroyHandlers
    <3>2. <<>> \in Seq(Reqs)
      OBVIOUS
    <3>3. queue \in Seq(Reqs)
      BY DEF TypeOK
    <3> QED
      BY <3>1, <3>2, <3>3, Zenon
  <2>3. begun' = [r \in Reqs |-> begun[r] /\ r \notin gone]
    BY <1>1 DEF Destroy
  <2>4. begun' \in [Reqs -> BOOLEAN]
    BY <2>3, Zenon
  <2>5. /\ kind' \in [Reqs -> Kinds \cup {"none"}]
        /\ left' \in [Reqs -> 0 .. MaxChunks]
        /\ conn' \in [Reqs -> {"none", "wanted", "pooled", "own"}]
        /\ where' \in [Reqs -> Places]
    BY <1>1, ConstantsAssumption DEF Destroy, TypeOK, Places
  <2> QED
    BY <2>1, <2>2, <2>4, <2>5 DEF TypeOK
<1>4. KindOK' /\ TransferOK' /\ HolderOK'
  BY <1>2 DEF KindOK, TransferOK, HolderOK, Unfinished
<1>5. QueueOK'
  <2>1. CASE DestroyTasks
    <3>1. queue' = <<>> /\ \A r \in Reqs : where'[r] # "queued"
      BY <1>1, <1>2, <2>1 DEF DestroyTasks, At
    <3> QED
      BY <3>1 DEF QueueOK
  <2>2. CASE DestroyHandlers
    <3>1. \A r \in Reqs : where'[r] = "queued" <=> where[r] = "queued"
      BY <1>1, <1>2, <2>2 DEF At
    <3> QED
      BY <2>2, <3>1, OthersKeepQueue DEF DestroyHandlers
  <2> QED
    BY <2>1, <2>2
<1>6. phase' \in Phases /\ Emptied'
  <2>1. \A place \in Places \ {"answered"} : At(place)' = At(place) \ gone
    BY <1>2 DEF At, Places
  <2>2. CASE DestroyTasks
    BY <1>1, <2>1, <2>2 DEF DestroyTasks, Emptied, Phases, Destroying, Places
  <2>3. CASE DestroyHandlers
    BY <1>1, <2>1, <2>3 DEF DestroyHandlers, Emptied, Phases, Destroying, Places
  <2> QED
    BY <2>2, <2>3
<1> QED
  BY <1>3, <1>4, <1>5, <1>6

\* The inductive invariant is one.
THEOREM ShutdownInvariance == SSpec => []SIInv
<1>1. SInit => SIInv
  BY InitOK DEF SInit, SIInv, Emptied, Phases, Serving, Destroying
<1>2. SIInv /\ [SNext]_svars => SIInv'
  <2> SUFFICES ASSUME SIInv, [SNext]_svars PROVE SIInv'
    OBVIOUS
  <2>1. CASE UNCHANGED svars
    <3>1. IInv' /\ UNCHANGED <<where, phase>>
      BY <2>1, NothingChanges DEF svars, vars, SIInv
    <3> QED
      BY <3>1 DEF SIInv, Emptied, At
  <2>2. CASE SNext
    BY <2>2, ServeOK, EnterOK, DestroyOK DEF SNext, FinishMain
  <2> QED
    BY <2>1, <2>2
<1> QED
  BY <1>1, <1>2, PTL DEF SSpec

-----------------------------------------------------------------------------
(* What follows from it *)

\* Every variable keeps its type, to the end of the server.
THEOREM ShutdownTypeCorrect == SSpec => []STypeOK
<1>1. SIInv => STypeOK
  BY DEF SIInv, IInv, STypeOK
<1> QED
  BY <1>1, ShutdownInvariance, PTL

\* Whenever the signal comes and whatever the requests are doing, no handler
\* and no task runs when main begins to destroy what they refer to, and no
\* request holds a connection of the pool that is gone.
THEOREM EndIsOrderly == SSpec => []OrderlyEnd
<1>1. SIInv => OrderlyEnd
  <2> SUFFICES ASSUME SIInv PROVE OrderlyEnd
    OBVIOUS
  <2>1. phase \in Destroying => At("io") = {} /\ At("bg") = {}
    BY DEF SIInv, Emptied
  <2>2. ASSUME phase = "ended", NEW r \in Pooled PROVE FALSE
    <3>1. r \in Reqs /\ conn[r] = "pooled"
      BY <2>2 DEF Pooled
    <3>2. where[r] \in {"unsent", "answered"}
      BY <2>2, <3>1 DEF SIInv, IInv, TypeOK, Places, Emptied, Destroying, At
    <3> QED
      BY <3>1, <3>2 DEF SIInv, IInv, HolderOK, Unfinished
  <2> QED
    BY <2>1, <2>2 DEF OrderlyEnd
<1> QED
  BY <1>1, ShutdownInvariance, PTL

\* The signal disturbs nothing of BackgroundIo: reads and short operations keep
\* no connection of the pool from one task to the next.
THEOREM ReadsLeaveThePoolToTheEnd == SSpec => []ReadsLeaveThePool
<1>1. SIInv => ReadsLeaveThePool
  BY HoldersAreServed DEF SIInv
<1> QED
  BY <1>1, ShutdownInvariance, PTL

\* Nor do requests ever all wait for one another while the writes leave room.
THEOREM NeverStuckToTheEnd == SSpec => []NeverStuck
<1>1. SIInv => NeverStuck
  BY ChainEnds DEF SIInv
<1> QED
  BY <1>1, ShutdownInvariance, PTL
=============================================================================
