------------------------ MODULE ParallelWriteProofs ------------------------
(***************************************************************************)
(* Safety of ParallelWrite for every number of requests, handles and       *)
(* streams: the types, the exclusive streams, the in_use_ flags, the       *)
(* lifetime of the streams under writes, and the count of active streams.  *)
(***************************************************************************)
EXTENDS ParallelWrite, FiniteSetTheorems, TLAPS

\* The phases of a context that was, or could have been, in the table.
Ended == {"ready", "erased", "failed"}

(* What is true of request r at each point of its code. *)

InitOK(r) ==
  /\ pc[r] \in {"opening", "publish"} =>
       /\ hdl[r] \in Handles
       /\ phase[hdl[r]] = "opening"
       /\ count[r] \in 1 .. MaxStreamsPerHandle
  /\ pc[r] = "opening" => size[hdl[r]] < count[r]
  /\ pc[r] = "publish" => size[hdl[r]] = count[r]

WriteOK(r) ==
  /\ pc[r] \in WritePCs => hdl[r] \in Handles /\ phase[hdl[r]] \in Ended
  /\ Writing(r) => idx[r] < size[hdl[r]]

ShutdownOK(r) ==
  /\ pc[r] \in ShutdownPCs => hdl[r] \in Handles /\ phase[hdl[r]] \in Ended
  /\ pc[r] \in {"close", "erase"} =>
       lock = r /\ phase[hdl[r]] = "ready"
  /\ pc[r] = "close" =>
       idx[r] < size[hdl[r]] /\ open[hdl[r]] = 0 .. idx[r]
  /\ pc[r] = "erase" => open[hdl[r]] = {}

MarkedOK(r) ==
  marked[r] => /\ hdl[r] \in Handles
               /\ pc[r] \in {"check", "recv", "chunk", "sent"}

ReqOK == \A r \in Reqs : InitOK(r) /\ WriteOK(r) /\ ShutdownOK(r) /\ MarkedOK(r)

\* No two inits fill the same vector.
OwnVector ==
  \A q, r \in Reqs :
    /\ q # r
    /\ pc[q] \in {"opening", "publish"}
    /\ pc[r] \in {"opening", "publish"}
    => hdl[q] # hdl[r]

Closing(h) == \E r \in Reqs : hdl[r] = h /\ pc[r] \in {"close", "erase"}

CtxOK == \A h \in Handles :
  /\ phase[h] = "unborn" => size[h] = 0
  /\ phase[h] \in {"unborn", "opening"} => open[h] = 0 .. size[h] - 1
  /\ phase[h] \in {"ready", "erased"} => size[h] >= 1
  /\ phase[h] = "ready" /\ ~Closing(h) => open[h] = 0 .. size[h] - 1
  /\ phase[h] \in {"failed", "erased"} => open[h] = {}
  /\ h \in known => phase[h] \in {"ready", "erased"}

\* Clients that await the replies never overlap a write and its shutdown.
Disciplined ==
  AwaitReplies =>
    \A q, r \in Reqs, h \in Handles : ~(Unanswered(q, h) /\ ShuttingDown(r, h))

\* So the context of a write that has found it stays in the table.
WritersInTable ==
  AwaitReplies =>
    \A r \in Reqs : pc[r] \in WritePCs \ {"find"} => phase[hdl[r]] = "ready"

\* A write that has found its context found it in the table.
FoundOffered ==
  \A r \in Reqs :
    pc[r] \in WritePCs \ {"find"} => hdl[r] \in Handles /\ Offered(hdl[r])

IInv ==
  TypeOK /\ ReqOK /\ OwnVector /\ CtxOK /\ AutoStreamsExclusive /\ InUseIffHeld
    /\ Disciplined /\ WritersInTable /\ FoundOffered

-----------------------------------------------------------------------------
(* The inductive step: one lemma per part of IInv, one case per action. *)

\* The requests clients send, with the stream-index absent and present in one.
LEMMA StartCases ==
  ASSUME NEW r \in Reqs, Start(r)
  PROVE  \/ \E n \in 0 .. MaxStreamsPerHandle + 1 : StartInit(r, n)
         \/ \E h \in Handles, n \in 0 .. MaxChunks, s, b \in BOOLEAN,
               i \in 0 .. MaxStreamsPerHandle : StartWrite(r, h, n, i, s, b)
         \/ \E h \in Handles : StartShutdown(r, h)
<1>1. ASSUME NEW h \in Handles, NEW n \in 0 .. MaxChunks, NEW s \in BOOLEAN,
             StartWrite(r, h, n, 0, s, FALSE)
      PROVE  \E b \in BOOLEAN, i \in 0 .. MaxStreamsPerHandle :
               StartWrite(r, h, n, i, s, b)
  <2>1. 0 \in 0 .. MaxStreamsPerHandle
    BY ConstantsAssumption
  <2> QED BY <1>1, <2>1
<1> QED BY <1>1 DEF Start

\* Every action keeps the types.
LEMMA TypeStep ==
  ASSUME IInv, NEW r \in Reqs, Start(r) \/ Step(r)
  PROVE  TypeOK'
<1>1. ASSUME NEW n \in 0 .. MaxStreamsPerHandle + 1, StartInit(r, n)
      PROVE  TypeOK'
  BY <1>1 DEF IInv, StartInit, TypeOK, Index, Phases,
     Codes, PCs, WritePCs, ShutdownPCs, Goto, srvVars
<1>2. ASSUME NEW h \in Handles, NEW n \in 0 .. MaxChunks, NEW s \in BOOLEAN,
             NEW b \in BOOLEAN, NEW i \in 0 .. MaxStreamsPerHandle,
             StartWrite(r, h, n, i, s, b)
      PROVE  TypeOK'
  BY <1>2 DEF IInv, StartWrite, TypeOK, Index, Phases,
     Codes, PCs, WritePCs, ShutdownPCs, Goto, srvVars
<1>3. ASSUME NEW h \in Handles, StartShutdown(r, h)
      PROVE  TypeOK'
  BY <1>3 DEF IInv, StartShutdown, TypeOK, Index, Phases,
     Codes, PCs, WritePCs, ShutdownPCs, Goto, srvVars
<1>4. CASE RefuseCount(r) \/ RefuseOverLimit(r) \/ FindContext(r) \/
           PickByIndex(r) \/ AllBusy(r) \/ ReceiveChunk(r) \/ EndWrite(r) \/
           NothingToShutDown(r)
  <2>1. UNCHANGED <<srvVars, args>>
    BY <1>4 DEF RefuseCount, RefuseOverLimit, FindContext, PickByIndex,
       AllBusy, ReceiveChunk, EndWrite, NothingToShutDown
  <2>2. \E next \in PCs, status \in Codes :
          /\ pc' = [pc EXCEPT ![r] = next]
          /\ code' = [code EXCEPT ![r] = status] \/ UNCHANGED code
    BY <1>4 DEF RefuseCount, RefuseOverLimit, FindContext, PickByIndex,
       AllBusy, ReceiveChunk, EndWrite, NothingToShutDown, Goto, Send, PCs,
       WritePCs, Codes
  <2> QED
    BY <2>1, <2>2 DEF IInv, TypeOK, srvVars, ctxVars, args
<1>5. CASE PassLimits(r)
  BY <1>5 DEF IInv, PassLimits, TypeOK, Index, Phases,
     Codes, PCs, WritePCs, ShutdownPCs, Goto
<1>6. CASE OpenStream(r)
  BY <1>6, ConstantsAssumption DEF IInv, OpenStream, ReqOK, InitOK, TypeOK,
     Index, Phases, Codes, PCs, WritePCs, ShutdownPCs, Goto, args
<1>7. CASE OpenFails(r)
  <2>1. PICK status \in {"irods_error", "internal_server_error", "bad_request"} :
          Send(r, status)
    BY <1>7 DEF OpenFails
  <2>2. status \in Codes
    BY DEF Codes
  <2> QED
    BY <1>7, <2>1, <2>2 DEF IInv, OpenFails, TypeOK, Index, Phases, PCs,
       WritePCs, ShutdownPCs, Send, args
<1>8. CASE Publish(r)
  BY <1>8 DEF IInv, Publish, ReqOK, InitOK, TypeOK,
     Index, Phases, Codes, PCs, WritePCs, ShutdownPCs, Send, args
<1>9. CASE PickFree(r)
  <2>1. PICK i \in FreeStreams(hdl[r]) :
          /\ inUse' = [inUse EXCEPT ![hdl[r]] = inUse[hdl[r]] \cup {i}]
          /\ idx' = [idx EXCEPT ![r] = i]
    BY <1>9 DEF PickFree, MarkInUse
  <2>2. i \in Index /\ i \in 0 .. MaxStreamsPerHandle
    BY <1>9, ConstantsAssumption DEF PickFree, FreeStreams, IInv, TypeOK,
       ReqOK, WriteOK, WritePCs, Index
  <2>3. inUse' \in [Handles -> SUBSET Index]
    BY <2>1, <2>2 DEF IInv, TypeOK
  <2>4. /\ idx' \in [Reqs -> 0 .. MaxStreamsPerHandle]
        /\ marked' \in [Reqs -> BOOLEAN]
        /\ pc' \in [Reqs -> PCs] /\ code' \in [Reqs -> Codes]
    BY <1>9, <2>1, <2>2 DEF PickFree, IInv, TypeOK, PCs, WritePCs, Goto
  <2> QED
    BY <1>9, <2>3, <2>4 DEF IInv, PickFree, TypeOK
<1>10. CASE CheckStream(r)
  <2>1. bad' \in [Handles -> SUBSET Index]
    BY <1>10, ConstantsAssumption DEF CheckStream, IInv, ReqOK, WriteOK,
       Writing, WritePCs, SpoilStream, TypeOK, Index
  <2>2. pc' \in [Reqs -> PCs] /\ code' \in [Reqs -> Codes]
    BY <1>10 DEF CheckStream, IInv, NextChunk, TypeOK, PCs, WritePCs, Codes,
       Goto, Send
  <2> QED
    BY <1>10, <2>1, <2>2 DEF CheckStream, IInv, TypeOK, args
<1>11. CASE WriteChunk(r)
  <2>1. bad' \in [Handles -> SUBSET Index]
    BY <1>11, ConstantsAssumption DEF WriteChunk, IInv, ReqOK, WriteOK,
       Writing, WritePCs, SpoilStream, TypeOK, Index
  <2>2. pc' \in [Reqs -> PCs] /\ code' \in [Reqs -> Codes]
    BY <1>11 DEF WriteChunk, IInv, NextChunk, TypeOK, PCs, WritePCs, Codes,
       Goto, Send
  <2>3. count' \in [Reqs -> Nat]
    BY <1>11, ConstantsAssumption DEF WriteChunk, IInv, TypeOK
  <2> QED
    BY <1>11, <2>1, <2>2, <2>3 DEF WriteChunk, IInv, TypeOK
<1>12. CASE LockContexts(r)
  BY <1>12, ConstantsAssumption DEF IInv, LockContexts, ReqOK, ShutdownOK,
     CtxOK, TakeLock, FromLast, InTable, TypeOK, Index, Phases, Codes, PCs,
     WritePCs, ShutdownPCs, Goto, ctxVars
<1>13. CASE CloseStream(r)
  <2>1. open' \in [Handles -> SUBSET Index]
    <3>1. \A h \in Handles : open[h] \ {idx[r]} \in SUBSET Index
      BY DEF IInv, TypeOK
    <3> QED BY <1>13, <3>1 DEF CloseStream, IInv, TypeOK
  <2>2. idx' \in [Reqs -> 0 .. MaxStreamsPerHandle]
    <3>1. CASE idx[r] > 0
      BY <1>13, <3>1, ConstantsAssumption DEF CloseStream, IInv, TypeOK, Goto
    <3>2. CASE ~(idx[r] > 0)
      BY <1>13, <3>2 DEF CloseStream, IInv, TypeOK
    <3> QED BY <3>1, <3>2
  <2>3. pc' \in [Reqs -> PCs] /\ code' \in [Reqs -> Codes]
    BY <1>13 DEF CloseStream, IInv, TypeOK, PCs, ShutdownPCs, Goto
  <2> QED
    BY <1>13, <2>1, <2>2, <2>3 DEF CloseStream, IInv, TypeOK
<1>14. CASE EraseContext(r)
  BY <1>14 DEF IInv, EraseContext, TypeOK, Index, Phases,
     Codes, PCs, WritePCs, ShutdownPCs, Send, args
<1>15. CASE Finish(r)
  <2>1. inUse' \in [Handles -> SUBSET Index]
    BY <1>15 DEF Finish, Release, Clear, IInv, TypeOK
  <2>2. /\ pc' \in [Reqs -> PCs] /\ code' \in [Reqs -> Codes]
        /\ count' \in [Reqs -> Nat]
        /\ idx' \in [Reqs -> 0 .. MaxStreamsPerHandle]
        /\ hdl' \in [Reqs -> Handles \cup {NoHandle}]
    BY <1>15, ConstantsAssumption DEF Finish, IInv, TypeOK, PCs, Codes
  <2>3. /\ marked' \in [Reqs -> BOOLEAN] /\ streaming' \in [Reqs -> BOOLEAN]
        /\ byIndex' \in [Reqs -> BOOLEAN]
    BY <1>15 DEF Finish, IInv, TypeOK
  <2> QED
    BY <1>15, <2>1, <2>2, <2>3 DEF Finish, IInv, TypeOK
<1> QED
  BY <1>1, <1>2, <1>3, <1>4, <1>5, <1>6, <1>7, <1>8, <1>9, <1>10, <1>11,
     <1>12, <1>13, <1>14, <1>15, StartCases DEF Step, InitStep, WriteStep,
     ShutdownStep

\* An init keeps to the vector it fills.
LEMMA InitStepOK ==
  ASSUME IInv, NEW r \in Reqs, Start(r) \/ Step(r)
  PROVE  (\A q \in Reqs : InitOK(q))'
<1> SUFFICES ASSUME NEW q \in Reqs PROVE InitOK(q)'
  OBVIOUS
<1>1. ASSUME NEW n \in 0 .. MaxStreamsPerHandle + 1, StartInit(r, n)
      PROVE  InitOK(q)'
  BY <1>1 DEF StartInit, IInv, TypeOK, ReqOK, InitOK,
     Goto, srvVars
<1>2. ASSUME NEW h \in Handles, NEW n \in 0 .. MaxChunks, NEW s \in BOOLEAN,
             NEW b \in BOOLEAN, NEW i \in 0 .. MaxStreamsPerHandle,
             StartWrite(r, h, n, i, s, b)
      PROVE  InitOK(q)'
  BY <1>2 DEF StartWrite, IInv, TypeOK, ReqOK, InitOK,
     Goto, srvVars
<1>3. ASSUME NEW h \in Handles, StartShutdown(r, h)
      PROVE  InitOK(q)'
  BY <1>3 DEF StartShutdown, IInv, TypeOK, ReqOK, InitOK,
     Goto, srvVars
<1>4. CASE RefuseCount(r) \/ RefuseOverLimit(r) \/ FindContext(r) \/
           PickByIndex(r) \/ PickFree(r) \/ AllBusy(r) \/ CheckStream(r) \/
           ReceiveChunk(r) \/ WriteChunk(r) \/ EndWrite(r) \/ LockContexts(r)
           \/ NothingToShutDown(r) \/ CloseStream(r) \/ Finish(r)
  BY <1>4 DEF RefuseCount, RefuseOverLimit, FindContext,
     InTable, PickByIndex, PickFree, MarkInUse, FreeStreams, AllBusy,
     CheckStream, SpoilStream, NextChunk, ReceiveChunk, WriteChunk, EndWrite,
     LockContexts, TakeLock, FromLast, NothingToShutDown, CloseStream, Finish,
     IInv, TypeOK, ReqOK, InitOK, Goto, Send, ctxVars, srvVars, args
<1>5. CASE PassLimits(r)
  BY <1>5 DEF PassLimits, ValidCount, CtxOK, IInv,
     TypeOK, ReqOK, InitOK, Goto
<1>6. CASE OpenStream(r)
  BY <1>6, SMTT(30) DEF OpenStream, OwnVector, IInv, TypeOK, ReqOK,
     InitOK, Goto, args
<1>7. CASE OpenFails(r)
  BY <1>7 DEF OpenFails, OwnVector, IInv, TypeOK, ReqOK,
     InitOK, Send, args
<1>8. CASE Publish(r)
  BY <1>8 DEF Publish, OwnVector, IInv, TypeOK, ReqOK,
     InitOK, Send, args
<1>9. CASE EraseContext(r)
  BY <1>9 DEF EraseContext, ShutdownOK, ShutdownPCs,
     IInv, TypeOK, ReqOK, InitOK, Send, args
<1> QED
  BY <1>1, <1>2, <1>3, <1>4, <1>5, <1>6, <1>7, <1>8, <1>9, StartCases DEF
     Step, InitStep, WriteStep, ShutdownStep

\* A write's context was published and its stream is in the vector.
LEMMA WriteStepOK ==
  ASSUME IInv, NEW r \in Reqs, Start(r) \/ Step(r)
  PROVE  (\A q \in Reqs : WriteOK(q))'
<1> SUFFICES ASSUME NEW q \in Reqs PROVE WriteOK(q)'
  OBVIOUS
<1>1. ASSUME NEW n \in 0 .. MaxStreamsPerHandle + 1, StartInit(r, n)
      PROVE  WriteOK(q)'
  BY <1>1 DEF StartInit, IInv, TypeOK, ReqOK, WriteOK,
     Writing, WritePCs, Ended, Goto, srvVars
<1>2. ASSUME NEW h \in Handles, StartShutdown(r, h)
      PROVE  WriteOK(q)'
  BY <1>2 DEF StartShutdown, IInv, TypeOK, ReqOK,
     WriteOK, Writing, WritePCs, Ended, Goto, srvVars
<1>3. ASSUME NEW h \in Handles, NEW n \in 0 .. MaxChunks, NEW s \in BOOLEAN,
             NEW b \in BOOLEAN, NEW i \in 0 .. MaxStreamsPerHandle,
             StartWrite(r, h, n, i, s, b)
      PROVE  WriteOK(q)'
  BY <1>3 DEF StartWrite, Sendable, CtxOK, IInv, TypeOK,
     ReqOK, WriteOK, Writing, WritePCs, Ended, Goto, srvVars
<1>4. CASE RefuseCount(r) \/ RefuseOverLimit(r) \/ FindContext(r) \/
           AllBusy(r) \/ CheckStream(r) \/ ReceiveChunk(r) \/ WriteChunk(r) \/
           EndWrite(r) \/ LockContexts(r) \/ NothingToShutDown(r) \/
           CloseStream(r) \/ Finish(r)
  BY <1>4 DEF RefuseCount, RefuseOverLimit, FindContext,
     InTable, AllBusy, CheckStream, SpoilStream, NextChunk, ReceiveChunk,
     WriteChunk, EndWrite, LockContexts, TakeLock, FromLast, ShutdownOK,
     ShutdownPCs, NothingToShutDown, CloseStream, Finish, IInv, TypeOK, ReqOK,
     WriteOK, Writing, WritePCs, Ended, Goto, Send, ctxVars, srvVars, args
<1>5. CASE PassLimits(r)
  BY <1>5 DEF PassLimits, ValidCount, InitOK, IInv,
     TypeOK, ReqOK, WriteOK, Writing, WritePCs, Ended, Goto
<1>6. CASE OpenStream(r) \/ OpenFails(r) \/ Publish(r)
  BY <1>6 DEF OpenStream, InitOK, OpenFails, Publish,
     IInv, TypeOK, ReqOK, WriteOK, Writing, WritePCs, Ended, Goto, Send, args
<1>7. CASE PickByIndex(r)
  BY <1>7 DEF PickByIndex, IInv, TypeOK, ReqOK, WriteOK,
     Writing, WritePCs, Ended, Goto, Send, srvVars, args
<1>8. CASE PickFree(r)
  BY <1>8 DEF PickFree, MarkInUse, FreeStreams, IInv,
     TypeOK, ReqOK, WriteOK, Writing, WritePCs, Ended, Goto
<1>9. CASE EraseContext(r)
  BY <1>9 DEF EraseContext, ShutdownOK, ShutdownPCs,
     IInv, TypeOK, ReqOK, WriteOK, Writing, WritePCs, Ended, Send, args
<1> QED
  BY <1>1, <1>2, <1>3, <1>4, <1>5, <1>6, <1>7, <1>8, <1>9, StartCases DEF
     Step, InitStep, WriteStep, ShutdownStep

\* A shutdown that closes holds the lock and closes from the back.
LEMMA ShutdownStepOK ==
  ASSUME IInv, NEW r \in Reqs, Start(r) \/ Step(r)
  PROVE  (\A q \in Reqs : ShutdownOK(q))'
<1> SUFFICES ASSUME NEW q \in Reqs PROVE ShutdownOK(q)'
  OBVIOUS
<1>1. ASSUME NEW n \in 0 .. MaxStreamsPerHandle + 1, StartInit(r, n)
      PROVE  ShutdownOK(q)'
  BY <1>1 DEF StartInit, IInv, TypeOK, ReqOK, ShutdownOK,
     ShutdownPCs, Ended, Goto, srvVars
<1>2. ASSUME NEW h \in Handles, NEW n \in 0 .. MaxChunks, NEW s \in BOOLEAN,
             NEW b \in BOOLEAN, NEW i \in 0 .. MaxStreamsPerHandle,
             StartWrite(r, h, n, i, s, b)
      PROVE  ShutdownOK(q)'
  BY <1>2 DEF StartWrite, IInv, TypeOK, ReqOK,
     ShutdownOK, ShutdownPCs, Ended, Goto, srvVars
<1>3. ASSUME NEW h \in Handles, StartShutdown(r, h)
      PROVE  ShutdownOK(q)'
  BY <1>3 DEF StartShutdown, Sendable, CtxOK, IInv,
     TypeOK, ReqOK, ShutdownOK, ShutdownPCs, Ended, Goto, srvVars
<1>4. CASE RefuseCount(r) \/ RefuseOverLimit(r) \/ FindContext(r) \/
           PickByIndex(r) \/ PickFree(r) \/ AllBusy(r) \/ CheckStream(r) \/
           ReceiveChunk(r) \/ WriteChunk(r) \/ EndWrite(r) \/
           NothingToShutDown(r) \/ Finish(r)
  BY <1>4 DEF RefuseCount, RefuseOverLimit, FindContext,
     InTable, PickByIndex, PickFree, MarkInUse, FreeStreams, AllBusy,
     CheckStream, SpoilStream, NextChunk, ReceiveChunk, WriteChunk, EndWrite,
     NothingToShutDown, Finish, IInv, TypeOK, ReqOK, ShutdownOK, ShutdownPCs,
     Ended, Goto, Send, srvVars, args
<1>5. CASE PassLimits(r)
  BY <1>5 DEF PassLimits, ValidCount, IInv, TypeOK,
     ReqOK, ShutdownOK, ShutdownPCs, Ended, Goto
<1>6. CASE OpenStream(r) \/ OpenFails(r) \/ Publish(r)
  <2>1. CASE OpenStream(r)
    BY <2>1, ConstantsAssumption DEF OpenStream, InitOK, IInv, TypeOK, ReqOK,
       ShutdownOK, ShutdownPCs, Ended, Goto, args
  <2>2. CASE OpenFails(r)
    BY <2>2 DEF OpenFails, InitOK, IInv, TypeOK, ReqOK, ShutdownOK,
       ShutdownPCs, Ended, Send, args
  <2>3. CASE Publish(r)
    BY <2>3 DEF Publish, InitOK, IInv, TypeOK, ReqOK, ShutdownOK,
       ShutdownPCs, Ended, Send, args
  <2> QED BY <1>6, <2>1, <2>2, <2>3
<1>7. CASE LockContexts(r)
  BY <1>7, ConstantsAssumption DEF LockContexts, TakeLock, FromLast, InTable,
     CtxOK, Closing, IInv, TypeOK, ReqOK, ShutdownOK, ShutdownPCs, Ended,
     Goto, ctxVars
<1>8. CASE CloseStream(r)
  <2>1. /\ idx[r] \in Nat /\ hdl[r] \in Handles /\ lock = r
        /\ open[hdl[r]] = 0 .. idx[r]
    BY <1>8 DEF CloseStream, IInv, TypeOK, ReqOK, ShutdownOK, ShutdownPCs
  <2>2. (0 .. idx[r]) \ {idx[r]} = 0 .. idx[r] - 1
    BY <2>1
  <2>3. open'[hdl[r]] = 0 .. idx[r] - 1
    BY <1>8, <2>1, <2>2 DEF CloseStream, IInv, TypeOK
  <2>4. CASE q = r
    BY <1>8, <2>1, <2>3, <2>4 DEF CloseStream, IInv, TypeOK, ReqOK,
       ShutdownOK, ShutdownPCs, Goto
  <2>5. CASE q # r
    BY <1>8, <2>1, <2>5 DEF CloseStream, IInv, TypeOK, ReqOK, ShutdownOK,
       ShutdownPCs, Goto
  <2> QED BY <2>4, <2>5
<1>9. CASE EraseContext(r)
  BY <1>9 DEF EraseContext, IInv, TypeOK, ReqOK,
     ShutdownOK, ShutdownPCs, Ended, Send, args
<1> QED
  BY <1>1, <1>2, <1>3, <1>4, <1>5, <1>6, <1>7, <1>8, <1>9, StartCases DEF
     Step, InitStep, WriteStep, ShutdownStep

\* Only a request that took a stream is marked.
LEMMA MarkedStepOK ==
  ASSUME IInv, NEW r \in Reqs, Start(r) \/ Step(r)
  PROVE  (\A q \in Reqs : MarkedOK(q))'
<1> SUFFICES ASSUME NEW q \in Reqs PROVE MarkedOK(q)'
  OBVIOUS
<1>1. ASSUME NEW n \in 0 .. MaxStreamsPerHandle + 1, StartInit(r, n)
      PROVE  MarkedOK(q)'
  BY <1>1 DEF StartInit, IInv, TypeOK, ReqOK, MarkedOK,
     Goto, srvVars
<1>2. ASSUME NEW h \in Handles, NEW n \in 0 .. MaxChunks, NEW s \in BOOLEAN,
             NEW b \in BOOLEAN, NEW i \in 0 .. MaxStreamsPerHandle,
             StartWrite(r, h, n, i, s, b)
      PROVE  MarkedOK(q)'
  BY <1>2 DEF StartWrite, IInv, TypeOK, ReqOK, MarkedOK,
     Goto, srvVars
<1>3. ASSUME NEW h \in Handles, StartShutdown(r, h)
      PROVE  MarkedOK(q)'
  BY <1>3 DEF StartShutdown, IInv, TypeOK, ReqOK,
     MarkedOK, Goto, srvVars
<1>4. CASE RefuseCount(r) \/ RefuseOverLimit(r) \/ PassLimits(r) \/
           OpenStream(r) \/ OpenFails(r) \/ Publish(r) \/ FindContext(r) \/
           PickByIndex(r) \/ AllBusy(r) \/ CheckStream(r) \/ ReceiveChunk(r)
           \/ WriteChunk(r) \/ EndWrite(r) \/ LockContexts(r) \/
           NothingToShutDown(r) \/ CloseStream(r) \/ EraseContext(r)
  BY <1>4 DEF RefuseCount, RefuseOverLimit, PassLimits,
     ValidCount, OpenStream, OpenFails, Publish, FindContext, InTable,
     PickByIndex, AllBusy, CheckStream, SpoilStream, NextChunk, ReceiveChunk,
     WriteChunk, EndWrite, LockContexts, TakeLock, FromLast,
     NothingToShutDown, CloseStream, EraseContext, IInv, TypeOK, ReqOK,
     MarkedOK, Goto, Send, ctxVars, srvVars, args
<1>5. CASE PickFree(r)
  BY <1>5 DEF PickFree, MarkInUse, FreeStreams, WriteOK,
     WritePCs, IInv, TypeOK, ReqOK, MarkedOK, Goto
<1>6. CASE Finish(r)
  BY <1>6 DEF Finish, IInv, TypeOK, ReqOK, MarkedOK
<1> QED
  BY <1>1, <1>2, <1>3, <1>4, <1>5, <1>6, StartCases DEF Step, InitStep,
     WriteStep, ShutdownStep

\* No two inits share a vector.
LEMMA OwnVectorStep ==
  ASSUME IInv, NEW r \in Reqs, Start(r) \/ Step(r)
  PROVE  OwnVector'
<1>1. ASSUME NEW n \in 0 .. MaxStreamsPerHandle + 1, StartInit(r, n)
      PROVE  OwnVector'
  BY <1>1 DEF StartInit, IInv, TypeOK, ReqOK, InitOK,
     OwnVector, Goto, srvVars
<1>2. ASSUME NEW h \in Handles, NEW n \in 0 .. MaxChunks, NEW s \in BOOLEAN,
             NEW b \in BOOLEAN, NEW i \in 0 .. MaxStreamsPerHandle,
             StartWrite(r, h, n, i, s, b)
      PROVE  OwnVector'
  BY <1>2 DEF StartWrite, IInv, TypeOK, ReqOK, InitOK,
     OwnVector, Goto, srvVars
<1>3. ASSUME NEW h \in Handles, StartShutdown(r, h)
      PROVE  OwnVector'
  BY <1>3 DEF StartShutdown, IInv, TypeOK, ReqOK, InitOK,
     OwnVector, Goto, srvVars
<1>4. CASE RefuseCount(r) \/ RefuseOverLimit(r) \/ OpenStream(r) \/
           OpenFails(r) \/ Publish(r) \/ FindContext(r) \/ PickByIndex(r) \/
           PickFree(r) \/ AllBusy(r) \/ CheckStream(r) \/ ReceiveChunk(r) \/
           WriteChunk(r) \/ EndWrite(r) \/ LockContexts(r) \/
           NothingToShutDown(r) \/ CloseStream(r) \/ EraseContext(r) \/
           Finish(r)
  BY <1>4 DEF RefuseCount, RefuseOverLimit, OpenStream,
     OpenFails, Publish, FindContext, InTable, PickByIndex, PickFree,
     MarkInUse, FreeStreams, AllBusy, CheckStream, SpoilStream, NextChunk,
     ReceiveChunk, WriteChunk, EndWrite, LockContexts, TakeLock, FromLast,
     NothingToShutDown, CloseStream, EraseContext, Finish, IInv, TypeOK,
     ReqOK, InitOK, OwnVector, Goto, Send, ctxVars, srvVars, args
<1>5. CASE PassLimits(r)
  BY <1>5 DEF PassLimits, ValidCount, IInv, TypeOK,
     ReqOK, InitOK, OwnVector, Goto
<1> QED
  BY <1>1, <1>2, <1>3, <1>4, <1>5, StartCases DEF Step, InitStep, WriteStep,
     ShutdownStep

\* The open streams of a context, from its life alone.
LEMMA CtxStep ==
  ASSUME IInv, NEW r \in Reqs, Start(r) \/ Step(r)
  PROVE  CtxOK'
<1>1. ASSUME NEW n \in 0 .. MaxStreamsPerHandle + 1, StartInit(r, n)
      PROVE  CtxOK'
  BY <1>1 DEF StartInit, IInv, TypeOK, CtxOK, Closing,
     Goto, srvVars
<1>2. ASSUME NEW h \in Handles, NEW n \in 0 .. MaxChunks, NEW s \in BOOLEAN,
             NEW b \in BOOLEAN, NEW i \in 0 .. MaxStreamsPerHandle,
             StartWrite(r, h, n, i, s, b)
      PROVE  CtxOK'
  BY <1>2 DEF StartWrite, IInv, TypeOK, CtxOK, Closing,
     Goto, srvVars
<1>3. ASSUME NEW h \in Handles, StartShutdown(r, h)
      PROVE  CtxOK'
  BY <1>3 DEF StartShutdown, IInv, TypeOK, CtxOK,
     Closing, Goto, srvVars
<1>4. CASE RefuseCount(r) \/ RefuseOverLimit(r) \/ FindContext(r) \/
           PickByIndex(r) \/ PickFree(r) \/ AllBusy(r) \/ CheckStream(r) \/
           ReceiveChunk(r) \/ WriteChunk(r) \/ EndWrite(r) \/
           NothingToShutDown(r) \/ Finish(r)
  <2>1. CASE RefuseCount(r) \/ RefuseOverLimit(r) \/ NothingToShutDown(r) \/ Finish(r)
    BY <2>1 DEF RefuseCount, RefuseOverLimit, NothingToShutDown, Finish, IInv,
       TypeOK, CtxOK, Closing, InTable, Goto, Send, srvVars, args
  <2>2. CASE FindContext(r) \/ PickByIndex(r) \/ PickFree(r) \/ AllBusy(r)
    BY <2>2 DEF FindContext, PickByIndex, PickFree, AllBusy, InTable, MarkInUse,
       FreeStreams, IInv, TypeOK, CtxOK, Closing, Goto, Send, srvVars, args
  <2>3. CASE CheckStream(r) \/ ReceiveChunk(r)
    BY <2>3 DEF CheckStream, ReceiveChunk, SpoilStream, NextChunk, IInv, TypeOK,
       CtxOK, Closing, Goto, Send, srvVars, args
  <2>4. CASE WriteChunk(r) \/ EndWrite(r)
    BY <2>4 DEF WriteChunk, EndWrite, SpoilStream, NextChunk, IInv, TypeOK,
       CtxOK, Closing, Goto, Send, srvVars, args
  <2> QED
    BY <1>4, <2>1, <2>2, <2>3, <2>4
<1>5. CASE PassLimits(r)
  BY <1>5 DEF PassLimits, ValidCount, IInv, TypeOK,
     CtxOK, Closing, Goto
<1>6. CASE OpenStream(r)
  <2>1. hdl[r] \in Handles /\ phase[hdl[r]] = "opening" /\ size[hdl[r]] \in Nat
    BY <1>6 DEF OpenStream, IInv, TypeOK, ReqOK, InitOK
  <2>2. (0 .. size[hdl[r]] - 1) \cup {size[hdl[r]]} = 0 .. size[hdl[r]]
    BY <2>1
  <2>3. /\ size'[hdl[r]] = size[hdl[r]] + 1
        /\ open'[hdl[r]] = 0 .. size'[hdl[r]] - 1
    BY <1>6, <2>1, <2>2 DEF OpenStream, IInv, TypeOK, CtxOK
  <2> QED
    BY <1>6, <2>1, <2>3 DEF OpenStream, IInv, TypeOK, CtxOK, Closing, Goto,
       args
<1>7. CASE OpenFails(r)
  BY <1>7 DEF OpenFails, ReqOK, InitOK, IInv, TypeOK,
     CtxOK, Closing, Send, args
<1>8. CASE Publish(r)
  BY <1>8 DEF Publish, ReqOK, InitOK, IInv, TypeOK,
     CtxOK, Closing, Send, args
<1>9. CASE LockContexts(r)
  BY <1>9 DEF LockContexts, TakeLock, FromLast, InTable,
     ReqOK, ShutdownOK, ShutdownPCs, IInv, TypeOK, CtxOK, Closing, Goto,
     ctxVars
<1>10. CASE CloseStream(r)
  BY <1>10 DEF CloseStream, ReqOK, ShutdownOK,
     ShutdownPCs, IInv, TypeOK, CtxOK, Closing, Goto
<1>11. CASE EraseContext(r)
  BY <1>11 DEF EraseContext, ReqOK, ShutdownOK,
     ShutdownPCs, IInv, TypeOK, CtxOK, Closing, Send, args
<1> QED
  BY <1>1, <1>2, <1>3, <1>4, <1>5, <1>6, <1>7, <1>8, <1>9, <1>10, <1>11,
     StartCases DEF Step, InitStep, WriteStep, ShutdownStep

\* find_available_parallel_write_stream gives a stream to one write.
LEMMA ExclusiveStep ==
  ASSUME IInv, NEW r \in Reqs, Start(r) \/ Step(r)
  PROVE  AutoStreamsExclusive'
<1>1. ASSUME NEW n \in 0 .. MaxStreamsPerHandle + 1, StartInit(r, n)
      PROVE  AutoStreamsExclusive'
  BY <1>1 DEF StartInit, IInv, TypeOK, ReqOK, MarkedOK,
     AutoStreamsExclusive, Goto, srvVars
<1>2. ASSUME NEW h \in Handles, NEW n \in 0 .. MaxChunks, NEW s \in BOOLEAN,
             NEW b \in BOOLEAN, NEW i \in 0 .. MaxStreamsPerHandle,
             StartWrite(r, h, n, i, s, b)
      PROVE  AutoStreamsExclusive'
  BY <1>2 DEF StartWrite, IInv, TypeOK, ReqOK, MarkedOK,
     AutoStreamsExclusive, Goto, srvVars
<1>3. ASSUME NEW h \in Handles, StartShutdown(r, h)
      PROVE  AutoStreamsExclusive'
  BY <1>3 DEF StartShutdown, IInv, TypeOK, ReqOK,
     MarkedOK, AutoStreamsExclusive, Goto, srvVars
<1>4. CASE RefuseCount(r) \/ RefuseOverLimit(r) \/ PassLimits(r) \/
           OpenStream(r) \/ OpenFails(r) \/ Publish(r) \/ FindContext(r) \/
           PickByIndex(r) \/ AllBusy(r) \/ CheckStream(r) \/ ReceiveChunk(r)
           \/ WriteChunk(r) \/ EndWrite(r) \/ NothingToShutDown(r) \/
           EraseContext(r)
  BY <1>4 DEF RefuseCount, RefuseOverLimit, PassLimits,
     ValidCount, OpenStream, OpenFails, Publish, FindContext, InTable,
     PickByIndex, AllBusy, CheckStream, SpoilStream, NextChunk, ReceiveChunk,
     WriteChunk, EndWrite, NothingToShutDown, EraseContext, IInv, TypeOK,
     ReqOK, MarkedOK, AutoStreamsExclusive, Goto, Send, srvVars, args
<1>5. CASE PickFree(r)
  BY <1>5 DEF PickFree, MarkInUse, FreeStreams,
     InUseIffHeld, Holders, IInv, TypeOK, ReqOK, MarkedOK,
     AutoStreamsExclusive, Goto
<1>6. CASE LockContexts(r) \/ CloseStream(r)
  BY <1>6 DEF LockContexts, TakeLock, FromLast, InTable,
     CloseStream, IInv, TypeOK, ReqOK, MarkedOK, AutoStreamsExclusive, Goto,
     ctxVars
<1>7. CASE Finish(r)
  BY <1>7 DEF Finish, IInv, TypeOK, ReqOK, MarkedOK,
     AutoStreamsExclusive
<1> QED
  BY <1>1, <1>2, <1>3, <1>4, <1>5, <1>6, <1>7, StartCases DEF Step, InitStep,
     WriteStep, ShutdownStep

\* The in_use_ flags are those of the marked requests.
LEMMA InUseStep ==
  ASSUME IInv, NEW r \in Reqs, Start(r) \/ Step(r)
  PROVE  InUseIffHeld'
<1>1. ASSUME NEW n \in 0 .. MaxStreamsPerHandle + 1, StartInit(r, n)
      PROVE  InUseIffHeld'
  BY <1>1 DEF StartInit, IInv, TypeOK, ReqOK, MarkedOK,
     InUseIffHeld, Holders, Goto, srvVars
<1>2. ASSUME NEW h \in Handles, NEW n \in 0 .. MaxChunks, NEW s \in BOOLEAN,
             NEW b \in BOOLEAN, NEW i \in 0 .. MaxStreamsPerHandle,
             StartWrite(r, h, n, i, s, b)
      PROVE  InUseIffHeld'
  BY <1>2 DEF StartWrite, IInv, TypeOK, ReqOK, MarkedOK,
     InUseIffHeld, Holders, Goto, srvVars
<1>3. ASSUME NEW h \in Handles, StartShutdown(r, h)
      PROVE  InUseIffHeld'
  BY <1>3 DEF StartShutdown, IInv, TypeOK, ReqOK,
     MarkedOK, InUseIffHeld, Holders, Goto, srvVars
<1>4. CASE RefuseCount(r) \/ RefuseOverLimit(r) \/ PassLimits(r) \/
           OpenStream(r) \/ OpenFails(r) \/ Publish(r) \/ FindContext(r) \/
           PickByIndex(r) \/ AllBusy(r) \/ CheckStream(r) \/ ReceiveChunk(r)
           \/ WriteChunk(r) \/ EndWrite(r) \/ NothingToShutDown(r) \/
           EraseContext(r)
  BY <1>4 DEF RefuseCount, RefuseOverLimit, PassLimits,
     ValidCount, OpenStream, OpenFails, Publish, FindContext, InTable,
     PickByIndex, AllBusy, CheckStream, SpoilStream, NextChunk, ReceiveChunk,
     WriteChunk, EndWrite, NothingToShutDown, EraseContext, IInv, TypeOK,
     ReqOK, MarkedOK, InUseIffHeld, Holders, Goto, Send, srvVars, args
<1>5. CASE PickFree(r)
  BY <1>5 DEF PickFree, MarkInUse, FreeStreams, WriteOK,
     WritePCs, IInv, TypeOK, ReqOK, MarkedOK, InUseIffHeld, Holders, Goto
<1>6. CASE LockContexts(r) \/ CloseStream(r)
  BY <1>6 DEF LockContexts, TakeLock, FromLast, InTable,
     CloseStream, IInv, TypeOK, ReqOK, MarkedOK, InUseIffHeld, Holders, Goto,
     ctxVars
<1>7. CASE Finish(r)
  BY <1>7 DEF Finish, Release, Clear,
     AutoStreamsExclusive, IInv, TypeOK, ReqOK, MarkedOK, InUseIffHeld,
     Holders
<1> QED
  BY <1>1, <1>2, <1>3, <1>4, <1>5, <1>6, <1>7, StartCases DEF Step, InitStep,
     WriteStep, ShutdownStep

\* The clients' discipline.
LEMMA DisciplinedStep ==
  ASSUME IInv, NEW r \in Reqs, Start(r) \/ Step(r)
  PROVE  Disciplined'
<1>1. ASSUME NEW n \in 0 .. MaxStreamsPerHandle + 1, StartInit(r, n)
      PROVE  Disciplined'
  BY <1>1 DEF StartInit, IInv, TypeOK, Disciplined,
     Unanswered, ShuttingDown, WritePCs, ShutdownPCs, Goto, srvVars
<1>2. ASSUME NEW h \in Handles, NEW n \in 0 .. MaxChunks, NEW s \in BOOLEAN,
             NEW b \in BOOLEAN, NEW i \in 0 .. MaxStreamsPerHandle,
             StartWrite(r, h, n, i, s, b)
      PROVE  Disciplined'
  BY <1>2 DEF StartWrite, IInv, TypeOK, Disciplined,
     Unanswered, ShuttingDown, WritePCs, ShutdownPCs, Goto, srvVars
<1>3. ASSUME NEW h \in Handles, StartShutdown(r, h)
      PROVE  Disciplined'
  BY <1>3 DEF StartShutdown, IInv, TypeOK, Disciplined,
     Unanswered, ShuttingDown, WritePCs, ShutdownPCs, Goto, srvVars
<1>4. CASE RefuseCount(r) \/ RefuseOverLimit(r) \/ OpenStream(r) \/
           OpenFails(r) \/ Publish(r) \/ FindContext(r) \/ PickByIndex(r) \/
           PickFree(r) \/ AllBusy(r) \/ CheckStream(r) \/ ReceiveChunk(r) \/
           WriteChunk(r) \/ EndWrite(r) \/ LockContexts(r) \/
           NothingToShutDown(r) \/ CloseStream(r) \/ EraseContext(r) \/
           Finish(r)
  BY <1>4 DEF RefuseCount, RefuseOverLimit, OpenStream,
     OpenFails, Publish, FindContext, InTable, PickByIndex, PickFree,
     MarkInUse, FreeStreams, AllBusy, CheckStream, SpoilStream, NextChunk,
     ReceiveChunk, WriteChunk, EndWrite, LockContexts, TakeLock, FromLast,
     NothingToShutDown, CloseStream, EraseContext, Finish, IInv, TypeOK,
     Disciplined, Unanswered, ShuttingDown, WritePCs, ShutdownPCs, Goto, Send,
     ctxVars, srvVars, args
<1>5. CASE PassLimits(r)
  BY <1>5 DEF PassLimits, ValidCount, IInv, TypeOK,
     Disciplined, Unanswered, ShuttingDown, WritePCs, ShutdownPCs, Goto
<1> QED
  BY <1>1, <1>2, <1>3, <1>4, <1>5, StartCases DEF Step, InitStep, WriteStep,
     ShutdownStep

\* A context is not erased under a disciplined write.
LEMMA WritersInTableStep ==
  ASSUME IInv, NEW r \in Reqs, Start(r) \/ Step(r)
  PROVE  WritersInTable'
<1>1. ASSUME NEW n \in 0 .. MaxStreamsPerHandle + 1, StartInit(r, n)
      PROVE  WritersInTable'
  BY <1>1 DEF StartInit, IInv, TypeOK, ReqOK, InitOK,
     WriteOK, WritersInTable, WritePCs, Goto, srvVars
<1>2. ASSUME NEW h \in Handles, NEW n \in 0 .. MaxChunks, NEW s \in BOOLEAN,
             NEW b \in BOOLEAN, NEW i \in 0 .. MaxStreamsPerHandle,
             StartWrite(r, h, n, i, s, b)
      PROVE  WritersInTable'
  BY <1>2 DEF StartWrite, IInv, TypeOK, ReqOK, InitOK,
     WriteOK, WritersInTable, WritePCs, Goto, srvVars
<1>3. ASSUME NEW h \in Handles, StartShutdown(r, h)
      PROVE  WritersInTable'
  BY <1>3 DEF StartShutdown, IInv, TypeOK, ReqOK, InitOK,
     WriteOK, WritersInTable, WritePCs, Goto, srvVars
<1>4. CASE RefuseCount(r) \/ RefuseOverLimit(r) \/ OpenStream(r) \/
           FindContext(r) \/ PickByIndex(r) \/ PickFree(r) \/ AllBusy(r) \/
           CheckStream(r) \/ ReceiveChunk(r) \/ WriteChunk(r) \/ EndWrite(r)
           \/ LockContexts(r) \/ NothingToShutDown(r) \/ CloseStream(r) \/
           Finish(r)
  BY <1>4 DEF RefuseCount, RefuseOverLimit, OpenStream,
     FindContext, InTable, PickByIndex, PickFree, MarkInUse, FreeStreams,
     AllBusy, CheckStream, SpoilStream, NextChunk, ReceiveChunk, WriteChunk,
     EndWrite, LockContexts, TakeLock, FromLast, NothingToShutDown,
     CloseStream, Finish, IInv, TypeOK, ReqOK, InitOK, WriteOK,
     WritersInTable, WritePCs, Goto, Send, ctxVars, srvVars, args
<1>5. CASE PassLimits(r)
  BY <1>5 DEF PassLimits, ValidCount, IInv, TypeOK,
     ReqOK, InitOK, WriteOK, WritersInTable, WritePCs, Goto
<1>6. CASE OpenFails(r) \/ Publish(r)
  BY <1>6 DEF OpenFails, Publish, IInv, TypeOK, ReqOK,
     InitOK, WriteOK, WritersInTable, WritePCs, Send, args
<1>7. CASE EraseContext(r)
  BY <1>7 DEF EraseContext, ShutdownOK, ShutdownPCs,
     Disciplined, Unanswered, ShuttingDown, IInv, TypeOK, ReqOK, InitOK,
     WriteOK, WritersInTable, WritePCs, Send, args
<1> QED
  BY <1>1, <1>2, <1>3, <1>4, <1>5, <1>6, <1>7, StartCases DEF Step, InitStep,
     WriteStep, ShutdownStep

\* What request r does leaves the others where they are.
LEMMA OthersKept ==
  ASSUME IInv, NEW r \in Reqs, Start(r) \/ Step(r), NEW q \in Reqs, q # r
  PROVE  /\ pc'[q] = pc[q] /\ hdl'[q] = hdl[q] /\ idx'[q] = idx[q]
         /\ count'[q] = count[q] /\ marked'[q] = marked[q] /\ code'[q] = code[q]
<1>1. CASE Start(r)
  BY <1>1, StartCases DEF StartInit, StartWrite, StartShutdown, Goto, IInv,
     TypeOK
<1>2. CASE InitStep(r)
  BY <1>2 DEF InitStep, RefuseCount, RefuseOverLimit, PassLimits, OpenStream,
     OpenFails, Publish, Goto, Send, args, IInv, TypeOK
<1>3. CASE WriteStep(r)
  BY <1>3 DEF WriteStep, FindContext, PickByIndex, PickFree, AllBusy,
     CheckStream, ReceiveChunk, WriteChunk, EndWrite, NextChunk, Goto, Send,
     args, IInv, TypeOK
<1>4. CASE ShutdownStep(r) \/ Finish(r)
  BY <1>4 DEF ShutdownStep, LockContexts, NothingToShutDown, CloseStream,
     EraseContext, Finish, Goto, Send, args, IInv, TypeOK
<1> QED BY <1>1, <1>2, <1>3, <1>4 DEF Step

\* The steps in the life of a context.
LEMMA PhaseKept ==
  ASSUME NEW r \in Reqs, Start(r) \/ Step(r),
         ~(PassLimits(r) \/ OpenFails(r) \/ Publish(r) \/ EraseContext(r))
  PROVE  UNCHANGED phase
<1>1. CASE Start(r)
  BY <1>1 DEF Start, StartInit, StartWrite, StartShutdown, srvVars
<1>2. CASE Step(r)
  BY <1>2 DEF Step, InitStep, WriteStep, ShutdownStep, RefuseCount,
     RefuseOverLimit, OpenStream, FindContext, PickByIndex, PickFree, AllBusy,
     CheckStream, ReceiveChunk, WriteChunk, EndWrite, LockContexts,
     NothingToShutDown, CloseStream, Finish, srvVars, ctxVars
<1> QED BY <1>1, <1>2

\* Only EraseContext takes a handle out of the table, and it stays offered.
LEMMA FoundOfferedStep ==
  ASSUME IInv, NEW r \in Reqs, Start(r) \/ Step(r)
  PROVE  FoundOffered'
<1>1. ASSUME NEW h \in Handles, Offered(h)
      PROVE  Offered(h)'
  <2>1. CASE PassLimits(r)
    BY <1>1, <2>1 DEF PassLimits, Offered, IInv, TypeOK
  <2>2. CASE OpenFails(r)
    BY <1>1, <2>2 DEF OpenFails, Offered, IInv, TypeOK, ReqOK, InitOK
  <2>3. CASE Publish(r) \/ EraseContext(r)
    BY <1>1, <2>3 DEF Publish, EraseContext, Offered, IInv, TypeOK
  <2>4. CASE ~(PassLimits(r) \/ OpenFails(r) \/ Publish(r) \/ EraseContext(r))
    <3>1. UNCHANGED phase
      BY <2>4, PhaseKept
    <3> QED BY <1>1, <3>1 DEF Offered
  <2> QED BY <2>1, <2>2, <2>3, <2>4
<1>2. ASSUME NEW q \in Reqs, q # r, pc'[q] \in WritePCs \ {"find"}
      PROVE  hdl'[q] \in Handles /\ Offered(hdl[q])'
  <2>1. pc'[q] = pc[q] /\ hdl'[q] = hdl[q]
    BY <1>2, OthersKept
  <2> QED BY <1>1, <1>2, <2>1 DEF IInv, FoundOffered, Offered
<1>3. ASSUME pc'[r] \in WritePCs \ {"find"}
      PROVE  hdl'[r] \in Handles /\ Offered(hdl[r])'
  <2>1. CASE FindContext(r)
    BY <1>1, <1>3, <2>1 DEF FindContext, InTable, Offered, Goto, Send, IInv,
       TypeOK, ReqOK, WriteOK, WritePCs, srvVars, args
  <2>2. CASE PickByIndex(r) \/ PickFree(r) \/ CheckStream(r) \/ ReceiveChunk(r)
             \/ WriteChunk(r)
    <3>1. pc[r] \in WritePCs \ {"find"} /\ UNCHANGED hdl
      BY <2>2 DEF PickByIndex, PickFree, CheckStream, ReceiveChunk, WriteChunk,
         WritePCs, args
    <3> QED BY <1>1, <3>1 DEF IInv, FoundOffered, Offered
  <2>3. CASE ~(FindContext(r) \/ PickByIndex(r) \/ PickFree(r) \/ CheckStream(r)
               \/ ReceiveChunk(r) \/ WriteChunk(r))
    <3>1. pc'[r] \notin WritePCs \ {"find"}
      <4>1. CASE Start(r)
        BY <4>1, StartCases DEF StartInit, StartWrite, StartShutdown, Goto,
           WritePCs, IInv, TypeOK
      <4>2. CASE Step(r)
        BY <4>2, <2>3 DEF Step, InitStep, WriteStep, ShutdownStep, RefuseCount,
           RefuseOverLimit, PassLimits, OpenStream, OpenFails, Publish, AllBusy,
           EndWrite, LockContexts, NothingToShutDown, CloseStream, EraseContext,
           Finish, Goto, Send, WritePCs, IInv, TypeOK
      <4> QED BY <4>1, <4>2
    <3> QED BY <1>3, <3>1
  <2> QED BY <2>1, <2>2, <2>3
<1> QED BY <1>2, <1>3 DEF FoundOffered, Offered

LEMMA InitIInv == Init => IInv
<1> SUFFICES ASSUME Init PROVE IInv
  OBVIOUS
<1>1. TypeOK
  BY ConstantsAssumption DEF Init, TypeOK, Phases, PCs, Codes
<1>2. ReqOK /\ OwnVector
  BY DEF Init, ReqOK, InitOK, WriteOK, ShutdownOK, MarkedOK, Writing, WritePCs,
     ShutdownPCs, OwnVector
<1>3. CtxOK
  BY DEF Init, CtxOK
<1>4. AutoStreamsExclusive /\ InUseIffHeld
  BY DEF Init, AutoStreamsExclusive, InUseIffHeld, Holders
<1>5. Disciplined /\ WritersInTable /\ FoundOffered
  BY DEF Init, Disciplined, Unanswered, ShuttingDown, WritersInTable,
     FoundOffered, WritePCs, ShutdownPCs
<1> QED BY <1>1, <1>2, <1>3, <1>4, <1>5 DEF IInv

LEMMA IInvStep == IInv /\ [Next]_vars => IInv'
<1>1. CASE UNCHANGED vars
  BY <1>1 DEF vars, srvVars, args, IInv, TypeOK, ReqOK, InitOK, WriteOK,
     ShutdownOK, MarkedOK, Writing, OwnVector, CtxOK, Closing,
     AutoStreamsExclusive, InUseIffHeld, Holders, Disciplined, Unanswered,
     ShuttingDown, WritersInTable, FoundOffered, Offered
<1>2. ASSUME IInv, NEW r \in Reqs, Start(r) \/ Step(r)
      PROVE  IInv'
  <2>1. ReqOK'
    BY <1>2, InitStepOK, WriteStepOK, ShutdownStepOK, MarkedStepOK DEF ReqOK
  <2> QED
    BY <1>2, <2>1, TypeStep, OwnVectorStep, CtxStep, ExclusiveStep, InUseStep,
       DisciplinedStep, WritersInTableStep, FoundOfferedStep DEF IInv
<1> QED BY <1>1, <1>2 DEF Next

THEOREM Invariance == Spec => []IInv
BY InitIInv, IInvStep, PTL DEF Spec

-----------------------------------------------------------------------------
(* What follows from it *)

\* Every variable keeps its type, for any number of requests and handles.
THEOREM TypeCorrect == Spec => []TypeOK
<1>1. IInv => TypeOK
  BY DEF IInv
<1> QED BY <1>1, Invariance, PTL

\* find_available_parallel_write_stream never gives one stream to two writes.
THEOREM StreamsExclusive == Spec => []AutoStreamsExclusive
<1>1. IInv => AutoStreamsExclusive
  BY DEF IInv
<1> QED BY <1>1, Invariance, PTL

\* in_use_ is set exactly while a write that let the server choose holds the
\* stream: no path of op_write or op_write_streaming leaks or steals it.
THEOREM FlagsAccurate == Spec => []InUseIffHeld
<1>1. IInv => InUseIffHeld
  BY DEF IInv
<1> QED BY <1>1, Invariance, PTL

\* With clients that await their replies before parallel_write_shutdown, no
\* write meets an erased context or a closed stream before its reply; what may
\* come too late is the scope exit that gives the stream back.
THEOREM LateReleaseOnly == Spec => []OnlyTheReleaseIsLate
<1>1. IInv => OnlyTheReleaseIsLate
  <2> SUFFICES ASSUME IInv, AwaitReplies, NEW r \in Reqs,
                      UsesContext(r), pc[r] # "sent"
               PROVE  HasContext(r)
    BY DEF OnlyTheReleaseIsLate
  <2>1. pc[r] \in WritePCs /\ pc[r] # "find"
    BY DEF UsesContext, Writing, WritePCs
  <2>2. /\ hdl[r] \in Handles /\ phase[hdl[r]] = "ready"
        /\ idx[r] \in Nat /\ size[hdl[r]] \in Nat
        /\ Writing(r) => idx[r] < size[hdl[r]]
    BY <2>1 DEF IInv, TypeOK, ReqOK, WriteOK, WritersInTable, Writing, WritePCs
  <2>3. ~Closing(hdl[r])
    BY <2>1, <2>2 DEF IInv, Closing, Disciplined, Unanswered, ShuttingDown,
       WritePCs, ShutdownPCs
  <2>4. open[hdl[r]] = 0 .. size[hdl[r]] - 1
    BY <2>2, <2>3 DEF IInv, CtxOK
  <2> QED BY <2>2, <2>4 DEF HasContext
<1> QED BY <1>1, Invariance, PTL

\* parallel_write_shutdown closes the primary stream after the secondary ones.
THEOREM PrimaryLast == Spec => PrimaryClosedLast
<1> DEFINE Last == \A h \in Handles :
                     /\ phase[h] = "ready"
                     /\ 0 \in open[h] /\ 0 \notin open'[h]
                     => open[h] = {0}
<1>1. IInv /\ [Next]_vars => Last
  <2>1. CASE UNCHANGED vars
    BY <2>1 DEF vars, srvVars
  <2>2. ASSUME IInv, NEW r \in Reqs, CloseStream(r)
        PROVE  Last
    <3>1. /\ hdl[r] \in Handles /\ idx[r] \in Nat
          /\ open[hdl[r]] = 0 .. idx[r]
      BY <2>2 DEF CloseStream, IInv, TypeOK, ReqOK, ShutdownOK, ShutdownPCs
    <3>2. idx[r] = 0 => open[hdl[r]] = {0}
      BY <3>1
    <3>3. open' = [open EXCEPT ![hdl[r]] = open[hdl[r]] \ {idx[r]}]
      BY <2>2 DEF CloseStream
    <3> QED BY <3>1, <3>2, <3>3 DEF IInv, TypeOK
  <2>3. ASSUME IInv, NEW r \in Reqs, OpenStream(r) \/ OpenFails(r)
        PROVE  Last
    <3>1. hdl[r] \in Handles /\ phase[hdl[r]] = "opening"
      BY <2>3 DEF OpenStream, OpenFails, IInv, ReqOK, InitOK
    <3> QED BY <2>3, <3>1 DEF OpenStream, OpenFails, IInv, TypeOK
  <2>4. ASSUME NEW r \in Reqs, Start(r) \/ Step(r),
               ~CloseStream(r), ~OpenStream(r), ~OpenFails(r)
        PROVE  UNCHANGED open
    <3>1. Start(r) => UNCHANGED open
      BY DEF Start, StartInit, StartWrite, StartShutdown, srvVars
    <3> QED
      BY <2>4, <3>1 DEF Step, InitStep, WriteStep, ShutdownStep, RefuseCount,
         RefuseOverLimit, PassLimits, Publish, FindContext, PickByIndex,
         PickFree, AllBusy, CheckStream, ReceiveChunk, WriteChunk, EndWrite,
         LockContexts, NothingToShutDown, EraseContext, Finish, srvVars,
         ctxVars
  <2> QED BY <2>1, <2>2, <2>3, <2>4 DEF Next
<1> QED BY <1>1, Invariance, PTL DEF Spec, PrimaryClosedLast

-----------------------------------------------------------------------------
(* The streams are lent as StreamLease promises *)

\* The state of StreamLease in a state of ParallelWrite.
Streams == [h \in Handles |-> IF Offered(h) THEN size[h] ELSE 0]
Leases == [r \in Reqs |-> IF marked[r] THEN <<hdl[r], idx[r]>> ELSE NoLease]
Busy == [r \in Reqs |-> pc[r] = "sent" /\ code[r] = "too_many_requests"]

LEMMA Stutter ==
  ASSUME Streams' = Streams, Leases' = Leases, Busy' = Busy
  PROVE  UNCHANGED Lease!vars
BY DEF Streams, Leases, Busy, Lease!vars

\* Only a request whose write the server chose a stream for has a lease.
LEMMA LeaseIff ==
  ASSUME IInv, NEW r \in Reqs
  PROVE  marked[r] <=> Leases[r] # NoLease
<1>1. marked[r] => hdl[r] # NoHandle
  BY ConstantsAssumption DEF IInv, ReqOK, MarkedOK
<1> QED BY <1>1 DEF Leases, NoLease

\* The streams that are not in use are those that are not lent.
LEMMA FreeIsFree ==
  ASSUME IInv, NEW h \in Handles, Offered(h)
  PROVE  Lease!Free(h) = FreeStreams(h)
<1>1. ASSUME NEW i \in 0 .. size[h] - 1
      PROVE  (\A q \in Reqs : Leases[q] # <<h, i>>) <=> i \notin inUse[h]
  <2>1. inUse[h] = {idx[q] : q \in Holders(h)}
    BY DEF IInv, InUseIffHeld
  <2>2. \A q \in Reqs : Leases[q] = <<h, i>> <=> q \in Holders(h) /\ idx[q] = i
    BY ConstantsAssumption DEF Leases, NoLease, Holders
  <2> QED BY <2>1, <2>2 DEF Holders
<1>2. Streams[h] = size[h]
  BY DEF Streams
<1> QED BY <1>1, <1>2 DEF Lease!Free, FreeStreams, Streams, Leases

\* The streams offered change when a handle is published, and never again.
LEMMA StreamsKept ==
  ASSUME IInv, NEW r \in Reqs, Start(r) \/ Step(r), ~Publish(r)
  PROVE  Streams' = Streams
<1>1. CASE PassLimits(r)
  BY <1>1 DEF PassLimits, Streams, Offered, IInv, TypeOK
<1>2. CASE OpenStream(r)
  BY <1>2 DEF OpenStream, Streams, Offered, IInv, TypeOK, ReqOK, InitOK
<1>3. CASE OpenFails(r)
  BY <1>3 DEF OpenFails, Streams, Offered, IInv, TypeOK, ReqOK, InitOK
<1>4. CASE EraseContext(r)
  <2>1. hdl[r] \in Handles /\ phase[hdl[r]] = "ready"
    BY <1>4 DEF EraseContext, IInv, ReqOK, ShutdownOK, ShutdownPCs
  <2> QED BY <1>4, <2>1 DEF EraseContext, Streams, Offered, IInv, TypeOK
<1>5. CASE ~(PassLimits(r) \/ OpenStream(r) \/ OpenFails(r) \/ EraseContext(r))
  <2>1. UNCHANGED phase
    BY <1>5, PhaseKept
  <2>2. UNCHANGED size
    <3>1. CASE Start(r)
      BY <3>1 DEF Start, StartInit, StartWrite, StartShutdown, srvVars
    <3>2. CASE Step(r)
      BY <3>2, <1>5 DEF Step, InitStep, WriteStep, ShutdownStep, RefuseCount,
         RefuseOverLimit, FindContext, PickByIndex, PickFree, AllBusy,
         CheckStream, ReceiveChunk, WriteChunk, EndWrite, LockContexts,
         NothingToShutDown, CloseStream, Finish, srvVars, ctxVars
    <3> QED BY <3>1, <3>2
  <2> QED BY <2>1, <2>2 DEF Streams, Offered
<1> QED BY <1>1, <1>2, <1>3, <1>4, <1>5

\* A request without a lease may turn to another stream, one with a lease not.
LEMMA LeasesKept ==
  ASSUME IInv, NEW r \in Reqs, Start(r) \/ Step(r), ~PickFree(r), ~Finish(r)
  PROVE  Leases' = Leases
<1>1. marked' = marked
  <2>1. CASE Start(r)
    BY <2>1 DEF Start, StartInit, StartWrite, StartShutdown
  <2>2. CASE Step(r)
    BY <2>2 DEF Step, InitStep, WriteStep, ShutdownStep, RefuseCount,
       RefuseOverLimit, PassLimits, OpenStream, OpenFails, Publish, FindContext,
       PickByIndex, AllBusy, CheckStream, ReceiveChunk, WriteChunk, EndWrite,
       LockContexts, NothingToShutDown, CloseStream, EraseContext, args
  <2> QED BY <2>1, <2>2
<1>2. marked[r] => hdl'[r] = hdl[r] /\ idx'[r] = idx[r]
  <2> SUFFICES ASSUME pc[r] \in {"check", "recv", "chunk", "sent"}
               PROVE  hdl'[r] = hdl[r] /\ idx'[r] = idx[r]
    BY DEF IInv, ReqOK, MarkedOK
  <2> QED
    BY StartCases DEF StartInit, StartWrite, StartShutdown, Step, InitStep,
       WriteStep, ShutdownStep, RefuseCount, RefuseOverLimit, PassLimits,
       OpenStream, OpenFails, Publish, FindContext, PickByIndex, AllBusy,
       CheckStream, ReceiveChunk, WriteChunk, EndWrite, LockContexts,
       NothingToShutDown, CloseStream, EraseContext, args
<1>3. \A q \in Reqs \ {r} : hdl'[q] = hdl[q] /\ idx'[q] = idx[q]
  BY OthersKept
<1> QED BY <1>1, <1>2, <1>3 DEF Leases, NoLease

\* A request is told once, by AllBusy, that every stream is lent.
LEMMA BusyKept ==
  ASSUME IInv, NEW r \in Reqs, Start(r) \/ Step(r), ~AllBusy(r), ~Finish(r)
  PROVE  Busy' = Busy
<1>1. pc[r] # "sent"
  BY StartCases DEF StartInit, StartWrite, StartShutdown, Step, InitStep,
     WriteStep, ShutdownStep, RefuseCount, RefuseOverLimit, PassLimits,
     OpenStream, OpenFails, Publish, FindContext, PickByIndex, PickFree,
     CheckStream, ReceiveChunk, WriteChunk, EndWrite, LockContexts,
     NothingToShutDown, CloseStream, EraseContext
<1>2. pc'[r] = "sent" => code'[r] # "too_many_requests"
  <2>1. CASE Start(r)
    BY <2>1, StartCases DEF StartInit, StartWrite, StartShutdown, Goto, IInv,
       TypeOK
  <2>2. CASE Step(r)
    BY <2>2 DEF Step, InitStep, WriteStep, ShutdownStep, RefuseCount,
       RefuseOverLimit, PassLimits, OpenStream, OpenFails, Publish, FindContext,
       PickByIndex, PickFree, CheckStream, ReceiveChunk, WriteChunk, EndWrite,
       NextChunk, LockContexts, NothingToShutDown, CloseStream, EraseContext,
       Goto, Send, IInv, TypeOK
  <2> QED BY <2>1, <2>2
<1>3. \A q \in Reqs \ {r} : pc'[q] = pc[q] /\ code'[q] = code[q]
  BY OthersKept
<1> QED BY <1>1, <1>2, <1>3 DEF Busy

LEMMA PublishOffers ==
  ASSUME IInv, NEW r \in Reqs, Publish(r)
  PROVE  \E h \in Handles, n \in 1 .. MaxStreamsPerHandle : Lease!Offer(h, n)
<1>1. PICK h \in Handles, n \in 1 .. MaxStreamsPerHandle :
        h = hdl[r] /\ phase[h] = "opening" /\ size[h] = n
  BY DEF Publish, IInv, ReqOK, InitOK
<1>2. Streams[h] = 0
  BY <1>1 DEF Streams, Offered
<1>3. Streams' = [Streams EXCEPT ![h] = n]
  BY <1>1 DEF Publish, Streams, Offered, IInv, TypeOK
<1>4. ~PickFree(r) /\ ~Finish(r) /\ ~AllBusy(r)
  BY DEF Publish, PickFree, Finish, AllBusy
<1>5. Leases' = Leases /\ Busy' = Busy
  BY <1>4, LeasesKept, BusyKept DEF Step, InitStep
<1> QED
  BY <1>1, <1>2, <1>3, <1>5 DEF Lease!Offer, Streams, Leases, Busy

LEMMA PickTakes ==
  ASSUME IInv, NEW r \in Reqs, PickFree(r)
  PROVE  \E h \in Handles : Lease!Take(r, h)
<1>1. PICK h \in Handles : h = hdl[r] /\ Offered(h)
  BY DEF PickFree, IInv, FoundOffered, WritePCs
<1>2. ~marked[r]
  BY DEF PickFree, IInv, ReqOK, MarkedOK
<1>3. Leases[r] = NoLease
  BY <1>2 DEF Leases
<1>4. PICK i \in Lease!Free(h) :
        /\ \A j \in Lease!Free(h) : i <= j
        /\ idx' = [idx EXCEPT ![r] = i]
  BY <1>1, FreeIsFree DEF PickFree
<1>5. Leases' = [Leases EXCEPT ![r] = <<h, i>>]
  BY <1>1, <1>4 DEF PickFree, Leases, IInv, TypeOK, NoLease
<1>6. Streams' = Streams /\ Busy' = Busy
  <2>1. ~Publish(r) /\ ~AllBusy(r) /\ ~Finish(r)
    BY DEF PickFree, Publish, AllBusy, Finish
  <2> QED BY <2>1, StreamsKept, BusyKept DEF Step, WriteStep
<1> QED
  BY <1>1, <1>3, <1>4, <1>5, <1>6 DEF Lease!Take, Streams, Leases, Busy

LEMMA AllBusyRefuses ==
  ASSUME IInv, NEW r \in Reqs, AllBusy(r)
  PROVE  \E h \in Handles : Lease!Refuse(r, h)
<1>1. PICK h \in Handles : h = hdl[r] /\ Offered(h)
  BY DEF AllBusy, IInv, FoundOffered, WritePCs
<1>2. Leases[r] = NoLease
  BY DEF AllBusy, IInv, ReqOK, MarkedOK, Leases
<1>3. Lease!Free(h) = {}
  BY <1>1, FreeIsFree DEF AllBusy
<1>4. Streams[h] > 0
  BY <1>1 DEF IInv, CtxOK, TypeOK, Streams, Offered
<1>5. Busy' = [Busy EXCEPT ![r] = TRUE]
  BY DEF AllBusy, Send, Busy, IInv, TypeOK
<1>6. Streams' = Streams /\ Leases' = Leases
  <2>1. ~Publish(r) /\ ~PickFree(r) /\ ~Finish(r)
    BY DEF AllBusy, Publish, PickFree, Finish
  <2> QED BY <2>1, StreamsKept, LeasesKept DEF Step, WriteStep
<1> QED
  BY <1>1, <1>2, <1>3, <1>4, <1>5, <1>6
  DEF Lease!Refuse, Streams, Leases, Busy

LEMMA FinishEnds ==
  ASSUME IInv, NEW r \in Reqs, Finish(r)
  PROVE  Lease!End(r)
<1>1. Leases' = [Leases EXCEPT ![r] = NoLease]
  BY DEF Finish, Leases, NoLease, IInv, TypeOK
<1>2. Busy' = [Busy EXCEPT ![r] = FALSE]
  BY DEF Finish, Busy, IInv, TypeOK
<1>3. Streams' = Streams
  <2>1. ~Publish(r)
    BY DEF Finish, Publish
  <2> QED BY <2>1, StreamsKept DEF Step
<1> QED BY <1>1, <1>2, <1>3 DEF Lease!End, Streams, Leases, Busy

LEMMA StepMaps == IInv /\ [Next]_vars => [Lease!Next]_(Lease!vars)
<1> SUFFICES ASSUME IInv, [Next]_vars
             PROVE  Lease!Next \/ UNCHANGED Lease!vars
  OBVIOUS
<1>1. CASE UNCHANGED vars
  BY <1>1, Stutter
  DEF vars, srvVars, args, Streams, Leases, Busy, Offered
<1>2. ASSUME NEW r \in Reqs, Start(r) \/ Step(r)
      PROVE  Lease!Next \/ UNCHANGED Lease!vars
  <2>1. CASE Publish(r)
    BY <2>1, PublishOffers DEF Lease!Next
  <2>2. CASE PickFree(r)
    BY <2>2, PickTakes DEF Lease!Next
  <2>3. CASE AllBusy(r)
    BY <2>3, AllBusyRefuses DEF Lease!Next
  <2>4. CASE Finish(r)
    BY <2>4, FinishEnds DEF Lease!Next
  <2>5. CASE ~(Publish(r) \/ PickFree(r) \/ AllBusy(r) \/ Finish(r))
    BY <1>2, <2>5, Stutter, StreamsKept, LeasesKept, BusyKept
  <2> QED BY <2>1, <2>2, <2>3, <2>4, <2>5
<1> QED BY <1>1, <1>2 DEF Next

\* Writes that do not name a stream are lent one each, the first that is not
\* lent, and turned away only when all are: find_available_parallel_write_stream
\* and mark_pw_stream_as_usable keep the promise of StreamLease.
THEOREM StreamsAreLent == Spec => ImplementsLease
<1>1. Init => Lease!Init
  BY DEF Init, Lease!Init, Offered, NoLease
<1>2. IInv /\ [Next]_vars => [Lease!Next]_(Lease!vars)
  BY StepMaps
<1> QED BY <1>1, <1>2, Invariance, PTL DEF Spec, ImplementsLease, Lease!Spec

-----------------------------------------------------------------------------
(* The count of active streams *)

LEMMA CountedFinite == IsFiniteSet(Counted)
<1>1. IsFiniteSet(Index)
  BY FS_Interval, ConstantsAssumption DEF Index
<1>2. IsFiniteSet(Handles \X Index)
  BY <1>1, FiniteAssumption, FS_Product
<1> QED BY <1>2, FS_Subset DEF Counted

\* What an action adds to the counter it adds to the streams counted.
LEMMA CounterStep ==
  ASSUME IInv, CounterAccurate, NEW r \in Reqs, Start(r) \/ Step(r)
  PROVE  CounterAccurate'
<1>1. ASSUME NEW n \in 0 .. MaxStreamsPerHandle + 1, StartInit(r, n)
      PROVE  CounterAccurate'
  BY <1>1 DEF StartInit, CounterAccurate, Counted, srvVars
<1>2. ASSUME NEW h \in Handles, NEW n \in 0 .. MaxChunks, NEW s \in BOOLEAN,
             NEW b \in BOOLEAN, NEW i \in 0 .. MaxStreamsPerHandle,
             StartWrite(r, h, n, i, s, b)
      PROVE  CounterAccurate'
  BY <1>2 DEF StartWrite, CounterAccurate, Counted, srvVars
<1>3. ASSUME NEW h \in Handles, StartShutdown(r, h)
      PROVE  CounterAccurate'
  BY <1>3 DEF StartShutdown, CounterAccurate, Counted, srvVars
<1>4. CASE RefuseCount(r) \/ RefuseOverLimit(r) \/ FindContext(r) \/
           PickByIndex(r) \/ PickFree(r) \/ AllBusy(r) \/ CheckStream(r) \/
           ReceiveChunk(r) \/ WriteChunk(r) \/ EndWrite(r) \/ LockContexts(r)
           \/ NothingToShutDown(r) \/ Finish(r)
  BY <1>4 DEF RefuseCount, RefuseOverLimit, FindContext, PickByIndex,
     PickFree, AllBusy, CheckStream, ReceiveChunk, WriteChunk, EndWrite,
     LockContexts, NothingToShutDown, Finish, CounterAccurate, Counted,
     ctxVars, srvVars
<1>5. CASE PassLimits(r) \/ Publish(r)
  <2>1. Counted' = Counted
    BY <1>5 DEF PassLimits, Publish, IInv, TypeOK, ReqOK, InitOK, Counted
  <2> QED BY <1>5, <2>1 DEF PassLimits, Publish, CounterAccurate
<1>6. CASE OpenStream(r)
  <2> DEFINE s == <<hdl[r], size[hdl[r]]>>
  <2>1. /\ hdl[r] \in Handles /\ phase[hdl[r]] = "opening"
        /\ size[hdl[r]] \in Index /\ size[hdl[r]] \notin open[hdl[r]]
    BY <1>6, ConstantsAssumption DEF OpenStream, IInv, TypeOK, ReqOK, InitOK,
       CtxOK, Index
  <2>2. s \notin Counted
    BY <2>1 DEF Counted
  <2>3. Counted' = Counted \cup {s}
    BY <1>6, <2>1 DEF OpenStream, IInv, TypeOK, Counted
  <2>4. Cardinality(Counted') = Cardinality(Counted) + 1
    BY <2>2, <2>3, CountedFinite, FS_AddElement
  <2> QED BY <1>6, <2>4 DEF OpenStream, CounterAccurate
<1>7. CASE OpenFails(r)
  <2>1. /\ hdl[r] \in Handles /\ phase[hdl[r]] = "opening"
        /\ open[hdl[r]] = 0 .. size[hdl[r]] - 1
        /\ size[hdl[r]] \in 0 .. MaxStreamsPerHandle
    BY <1>7 DEF OpenFails, IInv, TypeOK, ReqOK, InitOK, CtxOK
  <2>2. \A i \in Index : i \in open[hdl[r]] <=> i < size[hdl[r]]
    BY <2>1 DEF Index
  <2>3. Counted' = Counted
    BY <1>7, <2>1, <2>2 DEF OpenFails, IInv, TypeOK, Counted
  <2> QED BY <1>7, <2>3 DEF OpenFails, CounterAccurate
<1>8. CASE CloseStream(r)
  <2> DEFINE s == <<hdl[r], idx[r]>>
  <2>1. /\ hdl[r] \in Handles /\ phase[hdl[r]] = "ready"
        /\ idx[r] \in open[hdl[r]] /\ idx[r] \in Index
    BY <1>8 DEF CloseStream, IInv, TypeOK, ReqOK, ShutdownOK, ShutdownPCs
  <2>2. s \in Counted
    BY <2>1 DEF Counted
  <2>3. Counted' = Counted \ {s}
    BY <1>8, <2>1 DEF CloseStream, IInv, TypeOK, Counted
  <2>4. Cardinality(Counted') = Cardinality(Counted) - 1
    BY <2>2, <2>3, CountedFinite, FS_RemoveElement
  <2> QED BY <1>8, <2>4 DEF CloseStream, CounterAccurate
<1>9. CASE EraseContext(r)
  <2>1. hdl[r] \in Handles /\ phase[hdl[r]] = "ready"
    BY <1>9 DEF EraseContext, IInv, ReqOK, ShutdownOK, ShutdownPCs
  <2>2. Counted' = Counted
    BY <1>9, <2>1 DEF EraseContext, IInv, TypeOK, Counted
  <2> QED BY <1>9, <2>2 DEF EraseContext, CounterAccurate
<1> QED
  BY <1>1, <1>2, <1>3, <1>4, <1>5, <1>6, <1>7, <1>8, <1>9, StartCases DEF
     Step, InitStep, WriteStep, ShutdownStep

\* g_active_parallel_write_streams is the number of open streams, plus those
\* that failed inits leaked, whatever inits and shutdowns overlap.
THEOREM CounterCorrect == Spec => []CounterAccurate
<1>1. Init => CounterAccurate
  <2>1. ASSUME Init PROVE Counted = {}
    BY <2>1 DEF Init, Counted
  <2> QED BY <2>1, FS_EmptySet DEF Init, CounterAccurate
<1>2. IInv /\ CounterAccurate /\ [Next]_vars => CounterAccurate'
  <2>1. CASE UNCHANGED vars
    BY <2>1 DEF vars, srvVars, CounterAccurate, Counted
  <2> QED BY <2>1, CounterStep DEF Next
<1> QED BY <1>1, <1>2, Invariance, PTL DEF Spec

-----------------------------------------------------------------------------
(* Requests come to an end *)

\* Whoever waits for the table waits for a shutdown that closes streams.
HolderCloses == lock # NoReq => pc[lock] \in {"close", "erase"}

LEMMA HolderStep == IInv /\ HolderCloses /\ [Next]_vars => HolderCloses'
<1> SUFFICES ASSUME IInv, HolderCloses, [Next]_vars PROVE HolderCloses'
  OBVIOUS
<1>1. CASE UNCHANGED vars
  BY <1>1 DEF vars, srvVars, HolderCloses
<1>2. ASSUME NEW r \in Reqs, LockContexts(r) PROVE HolderCloses'
  BY <1>2 DEF LockContexts, TakeLock, Goto, HolderCloses, IInv, TypeOK
<1>3. ASSUME NEW r \in Reqs, EraseContext(r) PROVE HolderCloses'
  BY <1>3 DEF EraseContext, HolderCloses
<1>4. ASSUME NEW r \in Reqs, CloseStream(r) PROVE HolderCloses'
  BY <1>4 DEF CloseStream, Goto, HolderCloses, IInv, TypeOK
<1>5. ASSUME NEW r \in Reqs, Start(r) \/ Step(r),
             ~ LockContexts(r), ~ EraseContext(r), ~ CloseStream(r)
      PROVE  HolderCloses'
  <2>1. lock' = lock /\ pc[r] \notin {"close", "erase"}
    BY <1>5, StartCases DEF Step, InitStep, WriteStep, ShutdownStep, StartInit, StartWrite,
       StartShutdown, RefuseCount, RefuseOverLimit, PassLimits, OpenStream, OpenFails, Publish,
       FindContext, PickByIndex, PickFree, AllBusy, CheckStream, ReceiveChunk, WriteChunk,
       EndWrite, NothingToShutDown, Finish, srvVars
  <2>2. \A q \in Reqs \ {r} : pc'[q] = pc[q]
    BY <1>5, OthersKept
  <2>3. lock \in Reqs \cup {NoReq}
    BY DEF IInv, TypeOK
  <2> QED
    BY <2>1, <2>2, <2>3 DEF HolderCloses
<1> QED
  BY <1>1, <1>2, <1>3, <1>4, <1>5 DEF Next

\* The lock of the table is never left behind: a write that looks its context
\* up, an init that publishes and a shutdown wait for a shutdown that closes
\* its streams, which waits for nobody (op_parallel_write_shutdown).
THEOREM TableComesFree == Spec => []HolderCloses
<1>1. Init => HolderCloses
  BY DEF Init, HolderCloses
<1> QED
  BY <1>1, Invariance, HolderStep, PTL DEF Spec

\* Bounds the steps that the server has left to take for a request.
StepsLeft(r) ==
  CASE pc[r] = "sent" -> 1
    [] pc[r] = "limits" -> MaxStreamsPerHandle + 3
    [] pc[r] = "opening" -> count[r] - size[hdl[r]] + 2
    [] pc[r] = "publish" -> 2
    [] pc[r] = "find" -> 2 * count[r] + 6
    [] pc[r] = "pick" -> 2 * count[r] + 5
    [] pc[r] = "check" -> 2 * count[r] + 4
    [] pc[r] = "recv" -> 2 * count[r] + 3
    [] pc[r] = "chunk" -> 2 * count[r] + 2
    [] pc[r] = "lock" -> MaxStreamsPerHandle + 3
    [] pc[r] = "close" -> idx[r] + 3
    [] pc[r] = "erase" -> 2
    [] OTHER -> 0

\* A step of the server for r, with the three cases of its length.
LEMMA StepShortens ==
  ASSUME IInv, NEW r \in Reqs, Step(r)
  PROVE  StepsLeft(r)' < StepsLeft(r)
<1>1. /\ pc[r] \in PCs /\ count[r] \in Nat /\ idx[r] \in 0 .. MaxStreamsPerHandle
      /\ MaxStreamsPerHandle \in Nat
      /\ pc \in [Reqs -> PCs] /\ count \in [Reqs -> Nat]
      /\ idx \in [Reqs -> 0 .. MaxStreamsPerHandle]
  BY ConstantsAssumption DEF IInv, TypeOK
<1>2. /\ pc[r] = "opening" => /\ hdl[r] \in Handles /\ size[hdl[r]] \in Nat
                              /\ size[hdl[r]] < count[r]
      /\ \A h \in Handles : size[h] \in 0 .. MaxStreamsPerHandle
  BY ConstantsAssumption DEF IInv, TypeOK, ReqOK, InitOK
<1>3. ASSUME pc'[r] = "sent", pc[r] \notin {"idle", "sent"}
      PROVE  StepsLeft(r)' < StepsLeft(r)
  <2>1. StepsLeft(r)' = 1
    BY <1>3 DEF StepsLeft
  <2>2. StepsLeft(r) > 1
    BY <1>1, <1>2, <1>3 DEF StepsLeft, PCs, WritePCs, ShutdownPCs
  <2> QED
    BY <2>1, <2>2
<1>4. CASE Finish(r)
  BY <1>1, <1>4 DEF Finish, StepsLeft
<1>5. CASE RefuseCount(r) \/ RefuseOverLimit(r) \/ OpenFails(r) \/ Publish(r) \/ AllBusy(r)
           \/ EndWrite(r) \/ NothingToShutDown(r) \/ EraseContext(r)
  <2>1. pc'[r] = "sent" /\ pc[r] \notin {"idle", "sent"}
    BY <1>1, <1>5 DEF RefuseCount, RefuseOverLimit, OpenFails, Publish, AllBusy, EndWrite,
       NothingToShutDown, EraseContext, Send
  <2> QED
    BY <1>3, <2>1
<1>6. CASE PassLimits(r)
  <2>1. PICK h \in Handles :
          /\ phase[h] = "unborn" /\ hdl' = [hdl EXCEPT ![r] = h]
    BY <1>6 DEF PassLimits
  <2>2. /\ pc[r] = "limits" /\ pc'[r] = "opening" /\ hdl'[r] = h /\ size' = size
        /\ count' = count /\ count[r] <= MaxStreamsPerHandle
    BY <1>1, <1>6, <2>1 DEF PassLimits, Goto, ValidCount, IInv, TypeOK
  <2>3. size[h] = 0
    BY <2>1 DEF IInv, CtxOK
  <2> QED
    BY <1>1, <2>2, <2>3 DEF StepsLeft
<1>7. CASE OpenStream(r)
  <2>1. /\ pc[r] = "opening" /\ hdl' = hdl /\ count' = count
        /\ size'[hdl[r]] = size[hdl[r]] + 1
        /\ pc'[r] = IF size[hdl[r]] + 1 = count[r] THEN "publish" ELSE "opening"
    BY <1>1, <1>2, <1>7 DEF OpenStream, Goto, args, IInv, TypeOK
  <2> QED
    BY <1>1, <1>2, <2>1 DEF StepsLeft
<1>8. CASE FindContext(r) \/ PickByIndex(r) \/ PickFree(r) \/ CheckStream(r) \/ ReceiveChunk(r)
  <2>1. /\ count' = count
        /\ \/ pc'[r] = "sent" /\ pc[r] \notin {"idle", "sent"}
           \/ pc[r] = "find" /\ pc'[r] = "pick"
           \/ pc[r] = "pick" /\ pc'[r] = "check"
           \/ pc[r] = "check" /\ pc'[r] \in {"recv", "chunk"}
           \/ pc[r] = "recv" /\ pc'[r] = "chunk"
    BY <1>1, <1>8 DEF FindContext, PickByIndex, PickFree, CheckStream, ReceiveChunk, NextChunk,
       Goto, Send, args
  <2> QED
    BY <1>1, <1>3, <2>1 DEF StepsLeft
<1>9. CASE WriteChunk(r)
  <2>1. /\ pc[r] = "chunk" /\ count[r] > 0 /\ count'[r] = count[r] - 1
        /\ pc'[r] \in {"recv", "chunk"}
    BY <1>1, <1>9 DEF WriteChunk, NextChunk, Goto
  <2> QED
    BY <1>1, <2>1 DEF StepsLeft
<1>10. CASE LockContexts(r)
  <2>1. /\ pc[r] = "lock" /\ pc'[r] = "close" /\ hdl[r] \in Handles
        /\ idx'[r] = size[hdl[r]] - 1
    BY <1>1, <1>10 DEF LockContexts, FromLast, Goto, IInv, ReqOK, ShutdownOK, ShutdownPCs
  <2> QED
    BY <1>1, <1>2, <2>1 DEF StepsLeft
<1>11. CASE CloseStream(r)
  <2>1. /\ pc[r] = "close"
        /\ \/ pc'[r] = "close" /\ idx'[r] = idx[r] - 1
           \/ pc'[r] = "erase"
    BY <1>1, <1>11 DEF CloseStream, Goto
  <2> QED
    BY <1>1, <2>1 DEF StepsLeft
<1> QED
  BY <1>4, <1>5, <1>6, <1>7, <1>8, <1>9, <1>10, <1>11
     DEF Step, InitStep, WriteStep, ShutdownStep

LEMMA StepsLeftNat ==
  ASSUME IInv, NEW r \in Reqs
  PROVE  StepsLeft(r) \in Nat
<1>1. /\ count[r] \in Nat /\ idx[r] \in Nat /\ MaxStreamsPerHandle \in Nat
      /\ pc[r] = "opening" => size[hdl[r]] \in Nat /\ size[hdl[r]] < count[r]
  BY ConstantsAssumption DEF IInv, TypeOK, ReqOK, InitOK
<1> QED
  BY <1>1 DEF StepsLeft

\* What is done for others leaves a request where it is.
LEMMA OthersDoNotLengthen ==
  ASSUME IInv, NEW r \in Reqs, NEW q \in Reqs \ {r}, Start(q) \/ Step(q)
  PROVE  StepsLeft(r)' <= StepsLeft(r)
<1>1. pc'[r] = pc[r] /\ hdl'[r] = hdl[r] /\ idx'[r] = idx[r] /\ count'[r] = count[r]
  BY OthersKept
<1>2. \A h \in Handles : size'[h] \in Nat /\ size'[h] >= size[h]
  <2>1. CASE OpenStream(q)
    <3>1. /\ size \in [Handles -> 0 .. MaxStreamsPerHandle]
          /\ size' = [size EXCEPT ![hdl[q]] = @ + 1]
      BY <2>1 DEF OpenStream, IInv, TypeOK
    <3> QED
      BY <3>1, ConstantsAssumption
  <2>2. CASE ~ OpenStream(q)
    <3>1. size' = size
      BY <2>2, StartCases DEF Step, InitStep, WriteStep, ShutdownStep, StartInit, StartWrite,
         StartShutdown, RefuseCount, RefuseOverLimit, PassLimits, OpenFails, Publish,
         FindContext, PickByIndex, PickFree, AllBusy, CheckStream, ReceiveChunk, WriteChunk,
         EndWrite, LockContexts, NothingToShutDown, CloseStream, EraseContext, Finish, srvVars,
         ctxVars
    <3> QED
      BY <3>1 DEF IInv, TypeOK
  <2> QED
    BY <2>1, <2>2
<1>3. pc[r] = "opening" =>
        /\ hdl[r] \in Handles /\ size[hdl[r]] \in Nat /\ size'[hdl[r]] \in Nat
        /\ count[r] \in Nat
  BY <1>2 DEF IInv, TypeOK, ReqOK, InitOK
<1>4. CASE pc[r] = "opening"
  BY <1>1, <1>2, <1>3, <1>4 DEF StepsLeft
<1>5. CASE pc[r] # "opening"
  <2>1. StepsLeft(r)' = StepsLeft(r)
    BY <1>1, <1>5 DEF StepsLeft
  <2>2. StepsLeft(r) \in Nat
    BY StepsLeftNat
  <2> QED
    BY <2>1, <2>2
<1> QED
  BY <1>4, <1>5

\* No request goes round in the server, however many there are: each step taken
\* for it leaves it less to do, and what is done for others leaves it no more
\* (the loops over streams and chunks of the three operations).
\* StreamsComeBack needs, besides, that its steps are taken.
THEOREM RequestsAdvance ==
  Spec => /\ [](\A r \in Reqs : StepsLeft(r) \in Nat)
          /\ [][\A r \in Reqs :
                  /\ Step(r) => StepsLeft(r)' < StepsLeft(r)
                  /\ \A q \in Reqs \ {r} :
                       Start(q) \/ Step(q) => StepsLeft(r)' <= StepsLeft(r)]_vars
<1>1. IInv => \A r \in Reqs : StepsLeft(r) \in Nat
  BY StepsLeftNat
<1>2. IInv /\ [Next]_vars =>
        [\A r \in Reqs :
           /\ Step(r) => StepsLeft(r)' < StepsLeft(r)
           /\ \A q \in Reqs \ {r} :
                Start(q) \/ Step(q) => StepsLeft(r)' <= StepsLeft(r)]_vars
  BY StepShortens, OthersDoNotLengthen
<1> QED
  BY <1>1, <1>2, Invariance, PTL DEF Spec
=============================================================================
