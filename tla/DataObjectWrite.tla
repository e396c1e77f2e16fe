-------------------------- MODULE DataObjectWrite --------------------------
(***************************************************************************)
(* Where the bytes of writes go (op_write, op_write_streaming,             *)
(* incremental_write and streaming_write of                                *)
(* endpoints/data_objects/src/main.cpp).                                   *)
(*                                                                         *)
(* A write sets the position of its stream once, in its first task, and    *)
(* then sends one chunk per task; the stream keeps its position and its    *)
(* failed state between tasks, and the streams of a parallel write between *)
(* requests.  ParallelWrite models how streams are opened, picked, given   *)
(* back and closed; here they are open, and what is followed is every byte.*)
(* Writing a chunk takes two actions, so that two writers of one stream,   *)
(* which no lock keeps apart, may both start from the same position.       *)
(***************************************************************************)
EXTENDS Integers, FiniteSets

CONSTANTS
  Writers,     \* Slots for the writes being serviced.
  StreamCount, \* The streams of the parallel write.
  Kinds,       \* How writes get a stream: of "auto", "index", "plain".
  Offsets,     \* Bound: the offsets of the requests.
  MaxBytes,    \* Bound: the bytes of a request.
  MaxPosition, \* Bound: where a chunk may begin.
  ChunkBytes,  \* max_number_of_bytes_per_write_operation
  NoOffset,    \* The parameter offset is not given.
  NoStream     \* No stream has been picked.

ASSUME ConstantsAssumption ==
  /\ StreamCount \in Nat \ {0}
  /\ Kinds \subseteq {"auto", "index", "plain"}
  /\ Offsets \subseteq Nat
  /\ MaxBytes \in Nat
  /\ MaxPosition \in Nat
  /\ ChunkBytes \in Nat \ {0}
  /\ NoOffset \notin Int
  /\ Writers \cap (0 .. StreamCount - 1) = {}
  /\ NoStream \notin Writers \cup (0 .. StreamCount - 1)

Streams == 0 .. StreamCount - 1

\* A plain write has a stream of its own, which bears its name.
Sinks == Streams \cup Writers

VARIABLES
  position, \* position[s]: where stream s writes next.
  bad,      \* The streams in a failed state.
  inUse,    \* The streams whose in_use_ is true.
  (* The write in slot w. *)
  pc,       \* pc[w]: where its code is.
  req,      \* req[w]: its parameters.
  sid,      \* sid[w]: its stream.
  at,       \* at[w]: the position of the chunk it is writing.
  sent,     \* sent[w]: the bytes of it that were given to the stream.
  reply,    \* reply[w]: the status of its reply.
  landed,   \* landed[w]: the <<position, number>> of its bytes in the object.
  shared    \* The writes whose stream was used, by stream-index, by two.

streamVars == <<position, bad, inUse>>
vars == <<streamVars, pc, req, sid, at, sent, reply, landed, shared>>

Smaller(a, b) == IF a < b THEN a ELSE b

\* -1 stands for an offset that is not a number; given tells whether the
\* parameter bytes is there.
Requests == {r \in [kind : Kinds, offset : {NoOffset, -1} \cup Offsets,
                    given : BOOLEAN, bytes : 0 .. MaxBytes] : r.given \/ r.bytes = 0}
NoRequest == [kind |-> "none", offset |-> NoOffset, given |-> TRUE, bytes |-> 0]

Init ==
  /\ position = [s \in Sinks |-> 0]
  /\ bad = {}
  /\ inUse = {}
  /\ pc = [w \in Writers |-> "idle"]
  /\ req = [w \in Writers |-> NoRequest]
  /\ sid = [w \in Writers |-> NoStream]
  /\ at = [w \in Writers |-> 0]
  /\ sent = [w \in Writers |-> 0]
  /\ reply = [w \in Writers |-> "none"]
  /\ landed = [w \in Writers |-> {}]
  /\ shared = {}

Goto(w, next) == pc' = [pc EXCEPT ![w] = next] /\ UNCHANGED reply

Send(w, status) ==
  pc' = [pc EXCEPT ![w] = "sent"] /\ reply' = [reply EXCEPT ![w] = status]

-----------------------------------------------------------------------------
(* The first task: a stream, its state and its position *)

Start(w) ==
  /\ pc[w] = "idle"
  /\ \E r \in Requests : req' = [req EXCEPT ![w] = r]
  /\ Goto(w, "pick")
  /\ UNCHANGED <<streamVars, sid, at, sent, landed, shared>>

\* Faulty variant: in_use_ is not set.
LeaveUnmarked(s) == UNCHANGED inUse

MarkInUse(s) == inUse' = inUse \cup {s}

\* w gets stream s.
Use(w, s) ==
  LET others == {v \in Writers : sid[v] = s /\ "index" \in {req[v].kind, req[w].kind}}
  IN /\ sid' = [sid EXCEPT ![w] = s]
     /\ shared' = IF others = {} THEN shared ELSE shared \cup others \cup {w}

\* find_available_parallel_write_stream: the first one that is not in use.
PickFree(w) ==
  /\ pc[w] = "pick"
  /\ req[w].kind = "auto"
  /\ \/ Streams \subseteq inUse /\ Send(w, "too_many_requests") /\ UNCHANGED <<inUse, sid, shared>>
     \/ \E s \in Streams \ inUse :
          /\ \A k \in Streams \ inUse : s <= k
          /\ MarkInUse(s)
          /\ Use(w, s)
          /\ Goto(w, "check")
  /\ UNCHANGED <<position, bad, req, at, sent, landed>>

\* The stream that stream-index names, if there is one.
PickByIndex(w) ==
  /\ pc[w] = "pick"
  /\ req[w].kind = "index"
  /\ \/ (\E s \in Streams : Use(w, s)) /\ Goto(w, "check")
     \/ Send(w, "bad_request") /\ UNCHANGED <<sid, shared>>
  /\ UNCHANGED <<streamVars, req, at, sent, landed>>

\* A stream of its own, opened or not, at the beginning.  (With append, the
\* server chooses the positions: it is not modelled.)
OpenPlain(w) ==
  /\ pc[w] = "pick"
  /\ req[w].kind = "plain"
  /\ Use(w, w)
  /\ bad' \in {bad, bad \cup {w}}
  /\ Goto(w, "check")
  /\ UNCHANGED <<position, inUse, req, at, sent, landed>>

\* Only now the parameter bytes is looked for.
Proceed(w) == IF req[w].given THEN Goto(w, "chunk") ELSE Send(w, "bad_request")

\* The state of the stream is looked at before and after seekp.  A write
\* without bytes is refused when it has moved its stream.
Seek(w) ==
  /\ pc[w] = "check"
  /\ LET s == sid[w]
         offset == req[w].offset
     IN \/ /\ s \in bad
           /\ Send(w, "irods_error")
           /\ UNCHANGED <<position, bad>>
        \/ /\ s \notin bad
           /\ offset = NoOffset
           /\ Proceed(w)
           /\ UNCHANGED <<position, bad>>
        \/ /\ s \notin bad
           /\ offset = -1
           /\ Send(w, "bad_request")
           /\ UNCHANGED <<position, bad>>
        \/ /\ s \notin bad
           /\ offset \in Nat
           /\ position' = [position EXCEPT ![s] = offset]
           /\ Proceed(w)
           /\ UNCHANGED bad
        \/ /\ s \notin bad
           /\ offset \in Nat
           /\ bad' = bad \cup {s}
           /\ Send(w, "irods_error")
           /\ UNCHANGED position
  /\ UNCHANGED <<inUse, req, sid, at, sent, landed, shared>>

-----------------------------------------------------------------------------
(* One task per chunk *)

\* Faulty variant: the stream is looked at before the first chunk only.
GoodAtFirst(w) == sent[w] > 0 \/ sid[w] \notin bad

Good(w) == sid[w] \notin bad

BeginChunk(w) ==
  /\ pc[w] = "chunk"
  /\ sent[w] < req[w].bytes
  /\ position[sid[w]] <= MaxPosition
  /\ IF Good(w)
     THEN at' = [at EXCEPT ![w] = position[sid[w]]] /\ Goto(w, "write")
     ELSE Send(w, "internal_server_error") /\ UNCHANGED at
  /\ UNCHANGED <<streamVars, req, sid, sent, landed, shared>>

\* The bytes of the chunk, by their numbers.
Chunk(w) == sent[w] .. Smaller(sent[w] + ChunkBytes, req[w].bytes) - 1

\* The bytes of the chunk before number n are in the object.
Land(w, n) ==
  landed' = [landed EXCEPT
    ![w] = @ \cup {<<at[w] + i - sent[w], i>> : i \in {j \in Chunk(w) : j < n}}]

\* Faulty variant: every chunk counts as a full one.
MoveOnFully(w) == sent' = [sent EXCEPT ![w] = @ + ChunkBytes]

\* read_pos_ and remaining_bytes_, whether the chunk was written or not.
MoveOn(w) == sent' = [sent EXCEPT ![w] = @ + Cardinality(Chunk(w))]

EndChunk(w) ==
  /\ pc[w] = "write"
  /\ \/ /\ Land(w, req[w].bytes)
        /\ position' = [position EXCEPT ![sid[w]] =
                          at[w] + Cardinality(Chunk(w))]
        /\ UNCHANGED bad
     \/ /\ \E n \in Chunk(w) : Land(w, n)
        /\ bad' = bad \cup {sid[w]}
        /\ UNCHANGED position
  /\ MoveOn(w)
  /\ at' = [at EXCEPT ![w] = 0]
  /\ Goto(w, "chunk")
  /\ UNCHANGED <<inUse, req, sid, shared>>

\* The rest of a streamed body does not come.  (Any write may be streamed.)
ClientFails(w) ==
  /\ pc[w] = "chunk"
  /\ sent[w] < req[w].bytes
  /\ Send(w, "internal_server_error")
  /\ UNCHANGED <<streamVars, req, sid, at, sent, landed, shared>>

\* What becomes of the last chunk, and of the stream when it is closed, is
\* not looked at.
Finish(w) ==
  /\ pc[w] = "chunk"
  /\ sent[w] = req[w].bytes
  /\ Send(w, "ok")
  /\ UNCHANGED <<streamVars, req, sid, at, sent, landed, shared>>

\* The objects of the write die after its reply.
Release(w) ==
  /\ pc[w] = "sent"
  /\ inUse' = IF req[w].kind = "auto" THEN inUse \ {sid[w]} ELSE inUse
  /\ pc' = [pc EXCEPT ![w] = "idle"]
  /\ req' = [req EXCEPT ![w] = NoRequest]
  /\ sid' = [sid EXCEPT ![w] = NoStream]
  /\ position' = [position EXCEPT ![w] = 0]
  /\ bad' = bad \ {w}
  /\ sent' = [sent EXCEPT ![w] = 0]
  /\ reply' = [reply EXCEPT ![w] = "none"]
  /\ landed' = [landed EXCEPT ![w] = {}]
  /\ shared' = shared \ {w}
  /\ UNCHANGED at

-----------------------------------------------------------------------------

Next ==
  \E w \in Writers :
    \/ Start(w) \/ PickFree(w) \/ PickByIndex(w) \/ OpenPlain(w) \/ Seek(w)
    \/ BeginChunk(w) \/ EndChunk(w) \/ ClientFails(w) \/ Finish(w)
    \/ Release(w)

Spec == Init /\ [][Next]_vars

-----------------------------------------------------------------------------
(* What the code promises *)

\* The type of every variable: a write never gives its stream more bytes than
\* it has.
TypeOK ==
  /\ position \in [Sinks -> Nat]
  /\ bad \subseteq Sinks
  /\ inUse \subseteq Streams
  /\ pc \in [Writers -> {"idle", "pick", "check", "chunk", "write", "sent"}]
  /\ req \in [Writers -> Requests \cup {NoRequest}]
  /\ sid \in [Writers -> Sinks \cup {NoStream}]
  /\ at \in [Writers -> Nat]
  /\ sent \in [Writers -> Nat]
  /\ \A w \in Writers : sent[w] <= req[w].bytes
  /\ reply \in [Writers -> {"none", "ok", "irods_error", "bad_request",
                            "too_many_requests", "internal_server_error"}]
  /\ shared \subseteq Writers
  /\ landed \in [Writers -> SUBSET (Nat \X Nat)]
  /\ \A w \in Writers : \A b \in landed[w] : b[2] < req[w].bytes

\* The numbers of the bytes of w that are in the object.
Written(w) == {b[2] : b \in landed[w]}

\* A write with an offset puts every byte where it says, whatever the other
\* writes do between its chunks, and those before it left its stream at --
\* unless a client names the stream of another write by stream-index.
LandsAtItsOffset ==
  \A w \in Writers \ shared :
    req[w].offset # NoOffset =>
      \A b \in landed[w] : b[1] = req[w].offset + b[2]

\* After a chunk that failed, no other is written: what is in the object is a
\* beginning of the bytes, without a hole, and a write that is answered ok
\* lacks bytes of its last chunk only.
WritesABeginning ==
  \A w \in Writers :
    /\ \A i \in Written(w) : 0 .. i - 1 \subseteq Written(w)
    /\ reply[w] = "ok" =>
         \A i \in 0 .. req[w].bytes - 1 :
           i \in Written(w) \/ i >= ((req[w].bytes - 1) \div ChunkBytes) * ChunkBytes

\* API.md: "If there was an error, expect an HTTP status code in either the
\* 4XX or 5XX range": a write that is answered ok has written its bytes.
OkMeansWritten ==
  \A w \in Writers :
    reply[w] = "ok" => Written(w) = 0 .. req[w].bytes - 1
=============================================================================
