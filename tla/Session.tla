------------------------------ MODULE Session ------------------------------
(***************************************************************************)
(* The life of one connection of a client: core/src/session.cpp and        *)
(* session.hpp, with what the operations do to the session they answer     *)
(* (data_objects: op_write_streaming, streaming_write, incremental_read).  *)
(*                                                                         *)
(* A request is a header and some parts of a body.  The client may send    *)
(* requests ahead of the replies; the socket delivers what it sent in      *)
(* order, so the bytes that are not read yet are known from how far the    *)
(* client and the server are.  At any time the session has one socket      *)
(* operation under way, or one thread runs code of it.                     *)
(***************************************************************************)
EXTENDS Integers, Sequences

CONSTANTS
  Kinds,     \* The requests: "buffered", or "streamed" (op_write_streaming).
  MaxReqs,   \* Bound: the requests a client sends on the connection.
  MaxParts   \* Bound: the parts of a body, and the chunks of a large read.

ASSUME ConstantsAssumption ==
  /\ Kinds \subseteq {"buffered", "streamed"}
  /\ MaxReqs \in Nat
  /\ MaxParts \in Nat

VARIABLES
  (* The client *)
  kind,     \* kind[n]: what request n asks for.
  parts,    \* parts[n]: the parts of its body.
  sent,     \* The number of headers the client has sent,
  unsent,   \* and of parts of the last request it has still to send.
  gone,     \* The client has closed its side of the connection.
  (* The session *)
  state,    \* What it is doing, see States.
  got,      \* The number of headers it has read,
  left,     \* and of parts of the last request it has not read.
  more,     \* The chunks that a large read has still to read.
  late,     \* The time set by expires_after has passed.
  answered  \* The replies written: whose, and left when it was written.

clientVars == <<kind, parts, sent, unsent, gone>>
vars == <<clientVars, state, got, left, more, late, answered>>

\* A socket operation is under way.
SocketStates == {
  "header",   \* async_read_header
  "body",     \* async_read of the whole body
  "stream",   \* async_read of a part of the body, by streaming_write
  "reply",    \* async_write of a reply
  "chunk",    \* async_write of the header or a chunk, by incremental_read
  "last"}     \* async_write of the last chunk

States == SocketStates \cup {
  "handler",  \* A thread of the io_context runs the request's handler.
  "task",     \* A background task serves the request.
  "read",     \* A background task of incremental_read reads a chunk.
  "closed"}   \* Nothing refers to the session any more.

Replies == [req : 1 .. MaxReqs, unread : 0 .. MaxParts]

Init ==
  /\ kind = [n \in 1 .. MaxReqs |-> "none"]
  /\ parts = [n \in 1 .. MaxReqs |-> 0]
  /\ sent = 0
  /\ unsent = 0
  /\ gone = FALSE
  /\ state = "header"
  /\ got = 0
  /\ left = 0
  /\ more = 0
  /\ late = FALSE
  /\ answered = <<>>

-----------------------------------------------------------------------------
(* The client, and the clock *)

\* What it sends is chosen when it sends the header.
SendHeader(k, p) ==
  /\ state # "closed"
  /\ ~gone
  /\ sent < MaxReqs
  /\ unsent = 0
  /\ sent' = sent + 1
  /\ kind' = [kind EXCEPT ![sent + 1] = k]
  /\ parts' = [parts EXCEPT ![sent + 1] = p]
  /\ unsent' = p
  /\ UNCHANGED <<gone, state, got, left, more, late, answered>>

SendPart ==
  /\ state # "closed"
  /\ ~gone
  /\ unsent > 0
  /\ unsent' = unsent - 1
  /\ UNCHANGED <<kind, parts, sent, gone, state, got, left, more, late, answered>>

Leave ==
  /\ state # "closed"
  /\ ~gone
  /\ gone' = TRUE
  /\ UNCHANGED <<kind, parts, sent, unsent, state, got, left, more, late, answered>>

\* The next thing on the socket is a header, a part of the body of request
\* got, or, after everything the client sent, the end of the stream.
HeaderArrived == left = 0 /\ got < sent
PartArrived == left > IF got = sent THEN unsent ELSE 0
EndArrived == gone /\ ~HeaderArrived /\ ~PartArrived

\* do_read_header is the only one to set the time.
TimePasses ==
  /\ state # "closed"
  /\ ~late
  /\ late' = TRUE
  /\ UNCHANGED <<clientVars, state, got, left, more, answered>>

-----------------------------------------------------------------------------
(* session *)

Become(next) == state' = next

\* Faulty variant: only the wait for a header is bounded.
TimedWhileIdle(s) == s = "header"

Timed(s) == s \in SocketStates

\* An operation of the socket that is under way, or is begun, after the time
\* may fail with a timeout, which closes the socket.
TimeOut ==
  /\ late
  /\ Timed(state)
  /\ Become("closed")
  /\ UNCHANGED <<clientVars, got, left, more, late, answered>>

\* on_read_header.  A header that does not parse, or announces a body over
\* the limit, ends the session.
ReadHeader ==
  /\ state = "header"
  /\ HeaderArrived
  /\ got' = got + 1
  /\ left' = parts[got + 1]
  /\ \/ Become(IF kind[got + 1] = "streamed" THEN "handler" ELSE "body")
     \/ Become("closed")
  /\ UNCHANGED <<clientVars, more, late, answered>>

\* on_read_header when the bytes are those of a body that nobody has read.
\* They do not parse, or they are taken for a request, of which nothing is
\* said but that it goes to a handler.
ReadPartAsHeader ==
  /\ state = "header"
  /\ PartArrived
  /\ left' = left - 1
  /\ Become("closed") \/ Become("handler")
  /\ UNCHANGED <<clientVars, got, more, late, answered>>

\* Faulty variant: on_read_body runs with what has arrived of the body.
BodyBegun == TRUE

BodyRead == left = 0

\* The read of the whole body goes on until on_read_body.  A body that does
\* not parse or is over the limit ends the session.
ReadBody ==
  /\ state = "body"
  /\ \/ PartArrived /\ left' = left - 1 /\ UNCHANGED state
     \/ PartArrived /\ left' = left - 1 /\ Become("closed")
     \/ BodyRead /\ Become("handler") /\ UNCHANGED left
  /\ UNCHANGED <<clientVars, got, more, late, answered>>

\* end_of_stream or a partial message.
ReadEnds ==
  /\ state \in {"header", "body"}
  /\ left > 0 \/ state = "header"
  /\ EndArrived
  /\ Become("closed")
  /\ UNCHANGED <<clientVars, got, left, more, late, answered>>

\* Faulty variant: the parser is not renewed, and still holds the request.
SameParser == Become("handler") /\ late' = FALSE

\* do_read_header
NextRequest == Become("header") /\ late' = FALSE

Answered == answered' = Append(answered, [req |-> got, unread |-> left])

\* on_write.  need_eof holds when the request does not keep the connection.
ReplyWritten ==
  /\ state = "reply"
  /\ Answered
  /\ NextRequest \/ (Become("closed") /\ UNCHANGED late)
  /\ UNCHANGED <<clientVars, got, left, more>>

\* The error path of every write.
WriteFails ==
  /\ state \in {"reply", "chunk", "last"}
  /\ Become("closed")
  /\ UNCHANGED <<clientVars, got, left, more, late, answered>>

-----------------------------------------------------------------------------
(* The operations *)

\* The handler answers at once (a path or an operation that does not exist,
\* a client that is not authenticated), or posts a task.
RunHandler ==
  /\ state = "handler"
  /\ kind[got] = "buffered"
  /\ Become("reply") \/ Become("task")
  /\ UNCHANGED <<clientVars, got, left, more, late, answered>>

\* op_write_streaming: an error is answered with the body unread; otherwise
\* streaming_write starts.
RunStreamingHandler ==
  /\ state = "handler"
  /\ kind[got] = "streamed"
  /\ Become("reply") \/ Become("stream")
  /\ UNCHANGED <<clientVars, got, left, more, late, answered>>

\* The task answers, or an exception leaves it without an answer.
RunTask ==
  /\ state = "task"
  /\ kind[got] = "buffered"
  /\ Become("reply") \/ Become("closed")
  /\ UNCHANGED <<clientVars, got, left, more, late, answered>>

\* streaming_write: a part and then its task; the end of the body; or an
\* error of the socket or of the parser, which is answered.
ReadPart ==
  /\ state = "stream"
  /\ \/ PartArrived /\ left' = left - 1 /\ Become("task")
     \/ PartArrived /\ left' = left - 1 /\ Become("reply")
     \/ left = 0 /\ UNCHANGED left /\ Become("reply")
     \/ left > 0 /\ EndArrived /\ UNCHANGED left /\ Become("reply")
  /\ UNCHANGED <<clientVars, got, more, late, answered>>

\* The part is written, or the stream to iRODS is in a bad state.
WritePart ==
  /\ state = "task"
  /\ kind[got] = "streamed"
  /\ Become("stream") \/ Become("reply")
  /\ UNCHANGED <<clientVars, got, left, more, late, answered>>

\* op_read of a large object: incremental_read writes its header.
BeginRead ==
  /\ state = "task"
  /\ kind[got] = "buffered"
  /\ more' \in 1 .. MaxParts
  /\ Become("chunk")
  /\ UNCHANGED <<clientVars, got, left, late, answered>>

ChunkWritten ==
  /\ state = "chunk"
  /\ Become("read")
  /\ UNCHANGED <<clientVars, got, left, more, late, answered>>

MoreToRead == more > 0

\* A bad stream ends the session in the middle of the reply.
ReadChunk ==
  /\ state = "read"
  /\ \/ MoreToRead /\ more' = more - 1 /\ Become("chunk")
     \/ more = 0 /\ UNCHANGED more /\ Become("last")
     \/ UNCHANGED more /\ Become("closed")
  /\ UNCHANGED <<clientVars, got, left, late, answered>>

\* Nobody reads another request afterwards, whatever the header says.
LastChunkWritten ==
  /\ state = "last"
  /\ Answered
  /\ Become("closed")
  /\ UNCHANGED <<clientVars, got, left, more, late>>

-----------------------------------------------------------------------------

Client == (\E k \in Kinds, p \in 0 .. MaxParts : SendHeader(k, p)) \/ SendPart \/ Leave

Server ==
  \/ TimeOut \/ ReadHeader \/ ReadPartAsHeader \/ ReadBody \/ ReadEnds
  \/ ReplyWritten \/ WriteFails
  \/ RunHandler \/ RunStreamingHandler \/ RunTask \/ ReadPart \/ WritePart
  \/ BeginRead \/ ChunkWritten \/ ReadChunk \/ LastChunkWritten

Next == Client \/ TimePasses \/ Server

Spec == Init /\ [][Next]_vars

\* Time passes and the threads run; a client may stop at any point.
FairSpec == Spec /\ WF_vars(TimePasses) /\ WF_vars(Server)

-----------------------------------------------------------------------------
(* What the code promises *)

\* The type of every variable.
TypeOK ==
  /\ kind \in [1 .. MaxReqs -> Kinds \cup {"none"}]
  /\ parts \in [1 .. MaxReqs -> 0 .. MaxParts]
  /\ sent \in 0 .. MaxReqs
  /\ unsent \in 0 .. MaxParts
  /\ gone \in BOOLEAN
  /\ state \in States
  /\ got \in 0 .. sent
  /\ left \in 0 .. MaxParts
  /\ more \in 0 .. MaxParts
  /\ late \in BOOLEAN
  /\ answered \in Seq(Replies)

\* The first i replies were written after the bodies of their requests were read.
ReadUpTo(i) == \A j \in 1 .. i : answered[j].unread = 0

\* Request i gets reply i, and only one, also when requests are sent ahead of
\* the replies -- as long as no reply overtakes the body of its request.
RepliesInOrder ==
  \A i \in 1 .. Len(answered) : ReadUpTo(i - 1) => answered[i].req = i

\* The only replies that do so are those of op_write_streaming.
OnlyStreamedOvertake ==
  \A i \in 1 .. Len(answered) :
    answered[i].unread > 0 => kind[answered[i].req] = "streamed"

\* No client keeps a session forever with the requests it sends or does not
\* finish: it ends, by the client's end of stream or by the timeout.
SessionEnds == <>(state = "closed")

(* What the documentation or a comment says and the code does not do *)

\* session.cpp: do_read_header is to "Read only the headers of the request",
\* on_write to "Read another request".
HeadersOnly == state = "header" => ~PartArrived
=============================================================================
