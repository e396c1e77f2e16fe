------------------------------- MODULE Shutdown -------------------------------
(***************************************************************************)
(* The end of the server (core/src/main.cpp: main): SIGINT or SIGTERM      *)
(* while the requests of BackgroundIo are served.                          *)
(*                                                                         *)
(* The handler of the signal stops the io_context.  The main thread, which *)
(* is one of the threads that run it, then stops the background threads,   *)
(* waits for the functions that still run, closes the user mapping plugin  *)
(* and destroys what main owns, in the order opposite to its declarations: *)
(* the queue of tasks, the handlers and sockets of the io_context, the     *)
(* connection pool.  What waits in them is destroyed with them: its        *)
(* connection is given back and its client's connection is shut.           *)
(***************************************************************************)
EXTENDS BackgroundIo

VARIABLE phase \* How far main is, see Phases.

svars == <<vars, phase>>

Serving == {"serving", "signalled"}

Destroying == {"closed", "no tasks", "no handlers", "ended"}

Phases == Serving \cup Destroying \cup {"stopped", "joining", "joining tasks", "joined"}

SInit == Init /\ phase = "serving"

Enter(p) == phase' = p /\ UNCHANGED vars

-----------------------------------------------------------------------------
(* The requests *)

\* io_threads.stop() is called when main has left ioc.run().
TasksRun == phase \in Serving \cup {"stopped"}

\* A step of r.  Nothing starts on threads that are stopped; a function that
\* has started goes on, and what it posts stays where it is.
Serve(r) ==
  /\ \/ phase \in Serving /\ ((\E k \in Kinds : Arrive(r, k)) \/ RunHandler(r) \/ SocketDone(r))
     \/ TasksRun /\ RunTask(r)
     \/ HandOver(r) \/ WantConnection(r) \/ GetConnection(r) \/ AnswerAtOnce(r)
     \/ BeginRead(r) \/ BeginWrite(r) \/ BeginStream(r)
     \/ Continue(r) \/ MoveChunk(r) \/ EndTransfer(r)
  /\ UNCHANGED phase

-----------------------------------------------------------------------------
(* The signal *)

Signal == phase = "serving" /\ Enter("signalled")

\* A thread that is free takes the handler of the signal, which calls ioc.stop().
HandleSignal ==
  /\ phase = "signalled"
  /\ Cardinality(At("io")) < IoThreads
  /\ Enter("stopped")

\* ioc.run() returns in the main thread, which runs none of the handlers that
\* are left, and main stops the other threads.
StopThreads == phase = "stopped" /\ Enter("joining")

\* Faulty variant: what is still queued is waited for, too.
Drained(place) == At(place) = {} /\ queue = <<>>

Idle(place) == At(place) = {}

JoinHandlers == phase = "joining" /\ Idle("io") /\ Enter("joining tasks")

JoinTasks == phase = "joining tasks" /\ Idle("bg") /\ Enter("joined")

CloseMapper == phase = "joined" /\ Enter("closed")

-----------------------------------------------------------------------------
(* The destructors *)

Destroy(gone) ==
  /\ where' = [r \in Reqs |-> IF r \in gone THEN "answered" ELSE where[r]]
  /\ conn' = [r \in Reqs |-> IF r \in gone THEN "none" ELSE conn[r]]
  /\ kind' = [r \in Reqs |-> IF r \in gone THEN "none" ELSE kind[r]]
  /\ left' = [r \in Reqs |-> IF r \in gone THEN 0 ELSE left[r]]
  /\ begun' = [r \in Reqs |-> begun[r] /\ r \notin gone]
  /\ UNCHANGED compat

DestroyTasks ==
  /\ phase = "closed"
  /\ Destroy(At("queued"))
  /\ queue' = <<>>
  /\ phase' = "no tasks"

DestroyHandlers ==
  /\ phase = "no tasks"
  /\ Destroy(At("ready") \cup At("socket"))
  /\ phase' = "no handlers"
  /\ UNCHANGED queue

\* Faulty variant: the pool is declared after the io_context.
PoolAfterTasks == "no tasks"

PoolAfter == "no handlers"

DestroyPool == phase = PoolAfter /\ Enter("ended")

-----------------------------------------------------------------------------

FinishMain ==
  JoinHandlers \/ JoinTasks \/ CloseMapper
    \/ DestroyTasks \/ DestroyHandlers \/ DestroyPool

SNext ==
  (\E r \in Reqs : Serve(r)) \/ Signal \/ HandleSignal \/ StopThreads \/ FinishMain

SSpec == SInit /\ [][SNext]_svars

\* As in BackgroundIo, the threads run, the main thread too, unless it runs one
\* of the handlers that are left; neither an arrival nor a signal is fair.
SFairness ==
  /\ WF_svars(HandleSignal \/ (Idle("io") /\ StopThreads) \/ FinishMain)
  /\ \A r \in Reqs : WF_svars(Serve(r) /\ where[r] # "unsent")

SFairSpec == SSpec /\ SFairness

-----------------------------------------------------------------------------
(* What the code promises *)

\* The type of every variable.
STypeOK == TypeOK /\ phase \in Phases

\* Nothing of a request runs when main closes the plugin, which handlers call,
\* and begins to destroy what handlers and tasks refer to; and no connection
\* is given back to a pool that is gone: who holds one is destroyed before it.
OrderlyEnd ==
  /\ phase \in Destroying => At("io") = {} /\ At("bg") = {}
  /\ phase = "ended" => Pooled = {}

\* As long as the writes leave one pooled connection, every request is
\* answered, unless the server is told to stop; and then it ends: the comment
\* on the handler of the signal has the io_context destroyed "eventually".
EndsIfRoom ==
  /\ AnsweredIfRoom
  /\ []WritesLeaveRoom => (phase = "signalled" ~> phase = "ended")
=============================================================================
