--------------------------- MODULE DataObjectRead ---------------------------
(***************************************************************************)
(* One read of the /data-objects endpoint (op_read and incremental_read of *)
(* endpoints/data_objects/src/main.cpp), while other clients of the iRODS  *)
(* server change the data object.                                          *)
(*                                                                         *)
(* The task asks the server for the status of the object, then its size,   *)
(* then opens, seeks and reads it: each is an action, and the object may   *)
(* change between any two.  A read that fits in the buffer is answered at  *)
(* once; a larger one gets a connection of its own, its status is sent     *)
(* with the headers, and a task per buffer sends the chunks.  A byte is    *)
(* the number of the change that wrote it.                                 *)
(***************************************************************************)
EXTENDS Integers, Sequences

CONSTANTS
  MaxSize,    \* Bound: the size of the data object.
  MaxChanges, \* Bound: the changes of the data object.
  Buffer,     \* max_number_of_bytes_per_read_operation
  Absent      \* A parameter that is not given.

ASSUME ReadAssumption ==
  /\ MaxSize \in Nat
  /\ MaxChanges \in Nat
  /\ Buffer \in Nat \ {0}
  /\ Absent \notin Int

VARIABLES
  (* The data object. *)
  object,  \* Its bytes.
  there,   \* It exists.
  changes, \* How often it was changed.
  allowed, \* The client may read it without a ticket.
  (* The configuration. *)
  compat,  \* enable_4_2_compatibility
  (* The read. *)
  asked,   \* Its parameters.
  place,   \* Where its code is.
  enabled, \* The ticket is enabled on the connection it uses.
  count,   \* The bytes to read, then remaining_bytes_.
  got,     \* The bytes sent.
  answer,  \* "none", the status of a whole reply, "begun" or "broken".
  (* What was true on the way. *)
  wanted,  \* The bytes of the range, when the size was asked for.
  seen     \* The <<position, byte>> that the object had since the beginning.

objectVars == <<object, there, changes, allowed, seen>>
given == <<compat, asked>>
rvars == <<objectVars, given, place, enabled, count, got, answer, wanted>>

Errors == {"bad_request", "not_found", "internal_server_error"}

\* -1 stands for every number that the code refuses.
Reads == [lpath : BOOLEAN, ticket : BOOLEAN, replica : {"any", "invalid"},
          offset : -1 .. MaxSize, count : {Absent} \cup -1 .. MaxSize]

\* The bytes of the object with their positions.
Placed(bytes) == {<<i, bytes[i]>> : i \in DOMAIN bytes}

RInit ==
  /\ \E n \in 0 .. MaxSize : object = [i \in 1 .. n |-> 0]
  /\ there \in BOOLEAN
  /\ changes = 0
  /\ allowed \in BOOLEAN
  /\ compat \in BOOLEAN
  /\ asked \in Reads
  /\ place = "begin"
  /\ enabled = FALSE
  /\ count = 0
  /\ got = <<>>
  /\ answer = "none"
  /\ wanted = 0
  /\ seen = Placed(object)

-----------------------------------------------------------------------------
(* Other clients *)

\* Changes before the read are in its initial object; those after it do not
\* matter.
UnderWay == place \notin {"begin", "done"}

\* What is behind a position is written or cut off; the rest stays.
Change ==
  /\ UnderWay
  /\ there
  /\ changes < MaxChanges
  /\ changes' = changes + 1
  /\ \E n \in 0 .. MaxSize, k \in 0 .. Len(object) :
       object' = [i \in 1 .. n |-> IF i <= k THEN object[i] ELSE changes + 1]
  /\ seen' = seen \cup Placed(object')
  /\ UNCHANGED <<there, allowed, given, place, enabled, count, got, answer, wanted>>

Remove ==
  /\ UnderWay
  /\ there
  /\ changes < MaxChanges
  /\ changes' = changes + 1
  /\ there' = FALSE
  /\ UNCHANGED <<object, allowed, seen, given, place, enabled, count, got, answer,
                 wanted>>

-----------------------------------------------------------------------------
(* The task of op_read *)

\* The object is visible to the client on the connection of the read.
Visible == there /\ (allowed \/ enabled)

Answer(status) == answer' = status /\ place' = "done"

ToPlace(next) == place' = next /\ UNCHANGED answer

\* An iRODS error, an exception of a library, or no connection, at any point
\* after the check of lpath and before the reply is begun.
Fails ==
  /\ place \notin {"begin", "header", "chunk", "done"}
  /\ Answer("internal_server_error")
  /\ UNCHANGED <<objectVars, given, enabled, count, got, wanted>>

Begin ==
  /\ place = "begin"
  /\ IF asked.lpath THEN ToPlace("ticket") ELSE Answer("bad_request")
  /\ UNCHANGED <<objectVars, given, enabled, count, got, wanted>>

EnableTicket ==
  /\ place = "ticket"
  /\ enabled' = asked.ticket
  /\ ToPlace("status")
  /\ UNCHANGED <<objectVars, given, count, got, wanted>>

\* status, and the offset.
Status ==
  /\ place = "status"
  /\ IF ~Visible THEN Answer("not_found")
     ELSE IF asked.offset < 0 THEN Answer("bad_request") ELSE ToPlace("size")
  /\ UNCHANGED <<objectVars, given, enabled, count, got, wanted>>

\* The count that is asked for, cut to what is behind the offset; negative
\* when the offset is behind the end.
Count ==
  LET real == Len(object) - asked.offset
  IN IF asked.count = Absent \/ asked.count > real THEN real ELSE asked.count

\* Faulty variant: the numbers are compared as unsigned ones.
LargeUnsigned(n) == n > Buffer \/ n < 0

Large(n) == n > Buffer

\* data_object_size, and the count.
Size ==
  /\ place = "size"
  /\ IF ~Visible
     THEN Answer("internal_server_error") /\ UNCHANGED <<count, wanted>>
     ELSE IF asked.count # Absent /\ asked.count < 0
     THEN Answer("bad_request") /\ UNCHANGED <<count, wanted>>
     ELSE /\ count' = Count
          /\ wanted' = Count
          /\ ToPlace(IF Large(Count) THEN "dedicate" ELSE "open")
  /\ UNCHANGED <<objectVars, given, enabled, got>>

\* Faulty variant: with 4.2 compatibility too, a new connection is made.
NewConnection == enabled' = FALSE

\* The connection of a large read: a new one, unless there is no pool.
OwnConnection == enabled' = (enabled /\ compat)

Dedicate ==
  /\ place = "dedicate"
  /\ OwnConnection
  /\ ToPlace("open")
  /\ UNCHANGED <<objectVars, given, count, got, wanted>>

Open ==
  /\ place = "open"
  /\ IF Visible /\ asked.replica # "invalid" THEN ToPlace("seek")
     ELSE Answer("bad_request")
  /\ UNCHANGED <<objectVars, given, enabled, count, got, wanted>>

\* A position behind the end is not an error of seekg.
SeekTo ==
  /\ place = "seek"
  /\ ToPlace(IF Large(count) THEN "header" ELSE "read")
  /\ UNCHANGED <<objectVars, given, enabled, count, got, wanted>>

\* The position of the stream.
Position == asked.offset + Len(got)

\* read of n bytes finds them all; otherwise the stream fails.  (There is no
\* buffer of a negative size either.)
Finds(n) == n = 0 \/ (n > 0 /\ Position + n <= Len(object))

Take(n) == got' = got \o SubSeq(object, Position + 1, Position + n)

ReadAtOnce ==
  /\ place = "read"
  /\ IF Finds(count) THEN Take(count) /\ Answer("ok")
     ELSE Answer("internal_server_error") /\ UNCHANGED got
  /\ UNCHANGED <<objectVars, given, enabled, count, wanted>>

-----------------------------------------------------------------------------
(* incremental_read *)

SendHeader ==
  /\ place = "header"
  /\ place' = "chunk"
  /\ answer' = "begun"
  /\ UNCHANGED <<objectVars, given, enabled, count, got, wanted>>

ChunkSize == IF Buffer < count THEN Buffer ELSE count

\* Faulty variant: a stream that fails is at the end.
FailureIsTheEnd == ~Finds(ChunkSize) \/ count = 0

AtTheEnd == count = 0

\* The last chunk makes the reply a whole one.
LastChunk ==
  /\ place = "chunk"
  /\ AtTheEnd
  /\ Answer("ok")
  /\ UNCHANGED <<objectVars, given, enabled, count, got, wanted>>

TakeChunk ==
  /\ place = "chunk"
  /\ count # 0
  /\ Finds(ChunkSize)
  /\ Take(ChunkSize)
  /\ count' = count - ChunkSize
  /\ UNCHANGED <<objectVars, given, place, enabled, answer, wanted>>

\* Faulty variant: the task keeps the session, and its connection stays open.
KeepSession ==
  /\ place = "chunk"
  /\ ~Finds(ChunkSize)
  /\ UNCHANGED rvars

\* The stream fails: nobody keeps the session any more, and the connection is
\* closed without a last chunk.
StreamFails ==
  /\ place = "chunk"
  /\ ~Finds(ChunkSize)
  /\ Answer("broken")
  /\ UNCHANGED <<objectVars, given, enabled, count, got, wanted>>

\* The same when the server, or the client's socket, fails.
Breaks ==
  /\ place \in {"header", "chunk"}
  /\ Answer("broken")
  /\ UNCHANGED <<objectVars, given, enabled, count, got, wanted>>

-----------------------------------------------------------------------------

Read ==
  \/ Begin \/ EnableTicket \/ Status \/ Size \/ Dedicate \/ Open \/ SeekTo
  \/ ReadAtOnce \/ SendHeader \/ LastChunk \/ TakeChunk \/ StreamFails

RNext == Change \/ Remove \/ Read \/ Breaks \/ Fails

RSpec == RInit /\ [][RNext]_rvars

\* The threads run, and the client takes what is sent.
RFairSpec == RSpec /\ WF_rvars(Read)

-----------------------------------------------------------------------------
(* What the code promises *)

\* The type of every variable: while chunks are sent, what remains is never
\* negative.
RTypeOK ==
  /\ object \in Seq(0 .. changes) /\ Len(object) <= MaxSize
  /\ there \in BOOLEAN
  /\ changes \in 0 .. MaxChanges
  /\ allowed \in BOOLEAN
  /\ compat \in BOOLEAN
  /\ asked \in Reads
  /\ place \in {"begin", "ticket", "status", "size", "dedicate", "open", "seek",
             "read", "header", "chunk", "done"}
  /\ enabled \in BOOLEAN
  /\ count \in -MaxSize .. MaxSize
  /\ place = "chunk" => count >= 0
  /\ got \in Seq(0 .. changes) /\ Len(got) <= MaxSize
  /\ answer \in Errors \cup {"none", "begun", "ok", "broken"}
  /\ wanted \in -MaxSize .. MaxSize

\* What is sent is the range: every byte was in the object at the position
\* that the client asked for, while the read was under way; and a reply that
\* the client takes for a whole one has them all, however the object shrinks
\* between its size and its last chunk.
ReplyIsTheRange ==
  /\ \A i \in DOMAIN got : <<asked.offset + i, got[i]>> \in seen
  /\ answer = "ok" => Len(got) = wanted

\* The object is gone, or the client may not read it, with its ticket either.
NotReadable == ~there \/ ~(allowed \/ asked.ticket)

\* The parameters of the read are refused.
Malformed ==
  \/ ~asked.lpath \/ asked.replica = "invalid" \/ asked.offset < 0
  \/ asked.count # Absent /\ asked.count < 0

\* A read that its parameters and its ticket allow is told neither that the
\* object is not there nor that the request is bad; but for a large one that
\* gets a connection of its own, without the ticket: it is a bad request where
\* it opens the object (see TicketsAllowReads).
OnlyLargeReadsLoseTickets ==
  /\ answer = "not_found" => NotReadable
  /\ answer = "bad_request" =>
       \/ Malformed \/ NotReadable
       \/ asked.ticket /\ ~allowed /\ ~compat /\ wanted > Buffer

\* Every read comes to an end: a reply, or a connection that is closed.
ReadEnds == <>(place = "done")

(* What the documentation says and the code does not do *)

\* API.md: "The ticket to enable before reading the data object."  A read that
\* its parameters and its ticket allow is not refused, whatever its size.
TicketsAllowReads ==
  answer \in {"bad_request", "not_found"} => Malformed \/ NotReadable
=============================================================================
