--------------------------- MODULE SessionProofs ---------------------------
(***************************************************************************)
(* A connection and its requests (MCSession).                              *)
(*                                                                         *)
(* Session: the replies are in the order of the requests, for any number   *)
(* of requests and any length of their bodies.                             *)
(*                                                                         *)
(* RequestArguments: for any form, the handler gets the arguments that the *)
(* client meant, but for a plus that is URL-encoded.  What the recursive   *)
(* FlattenSeq makes of the parts is proved by the least place where it     *)
(* would fail.                                                             *)
(***************************************************************************)
EXTENDS MCSession, SequenceTheorems, FiniteSetTheorems, WellFoundedInduction, TLAPS

\* A request is being serviced.
Serving == state \notin {"header", "closed"}

\* While no reply has overtaken a body, the session is exactly one reply
\* behind while it serves a request, and even between two requests.
InStep ==
  ReadUpTo(Len(answered)) =>
    /\ state = "header" => Len(answered) = got /\ left = 0
    /\ Serving => Len(answered) = got - 1

\* Only a streamed request can have unread parts when its handler runs.
KindOK ==
  /\ \A n \in 1 .. sent : kind[n] \in Kinds
  /\ Serving => got >= 1
  /\ state = "body" => kind[got] = "buffered"
  /\ state \in {"chunk", "read", "last"} => kind[got] = "buffered"
  /\ state = "stream" => kind[got] = "streamed"
  /\ state = "header" /\ left > 0 => got >= 1 /\ kind[got] = "streamed"
  /\ state \in {"handler", "task", "reply", "chunk", "read", "last"} /\ left > 0
       => kind[got] = "streamed"

\* A reply is to a request whose header has been read.
OldReplies == \A i \in 1 .. Len(answered) : answered[i].req <= got

IInv ==
  /\ TypeOK /\ InStep /\ KindOK /\ OldReplies
  /\ RepliesInOrder /\ OnlyStreamedOvertake

-----------------------------------------------------------------------------

LEMMA InitOK == Init => IInv
<1> SUFFICES ASSUME Init PROVE IInv
  OBVIOUS
<1>1. answered \in Seq(Replies) /\ Len(answered) = 0
  BY DEF Init
<1>2. TypeOK
  <2>1. kind \in [1 .. MaxReqs -> Kinds \cup {"none"}]
    BY DEF Init
  <2>2. parts \in [1 .. MaxReqs -> 0 .. MaxParts]
    BY ConstantsAssumption DEF Init
  <2>3. /\ sent \in 0 .. MaxReqs /\ unsent \in 0 .. MaxParts /\ got \in 0 .. sent
        /\ left \in 0 .. MaxParts /\ more \in 0 .. MaxParts
    BY ConstantsAssumption DEF Init
  <2>4. gone \in BOOLEAN /\ late \in BOOLEAN /\ state \in States
    BY DEF Init, States, SocketStates
  <2> QED BY <1>1, <2>1, <2>2, <2>3, <2>4 DEF TypeOK
<1> QED
  BY <1>1, <1>2 DEF Init, IInv, InStep, KindOK, OldReplies, Serving, RepliesInOrder,
              OnlyStreamedOvertake

\* A step that writes no reply keeps what is known of the replies.
LEMMA NoReply ==
  ASSUME IInv, answered' = answered, got \in 0 .. got', sent' >= sent,
         TypeOK', \A n \in 1 .. sent : kind'[n] = kind[n]
  PROVE  OldReplies' /\ RepliesInOrder' /\ OnlyStreamedOvertake'
<1>1. \A i \in 1 .. Len(answered) :
        /\ answered[i].req \in 1 .. MaxReqs
        /\ answered[i].req <= got
        /\ answered[i].unread \in 0 .. MaxParts
  <2>1. \A i \in 1 .. Len(answered) : answered[i] \in Replies
    BY DEF IInv, TypeOK
  <2> QED BY <2>1 DEF IInv, OldReplies, Replies
<1>2. got \in Nat /\ got <= sent /\ sent \in Nat /\ got' \in Nat
  BY ConstantsAssumption DEF IInv, TypeOK
<1>3. OldReplies'
  BY <1>1, <1>2 DEF OldReplies
<1>4. RepliesInOrder'
  BY DEF IInv, RepliesInOrder, ReadUpTo
<1>5. OnlyStreamedOvertake'
  <2> SUFFICES ASSUME NEW i \in 1 .. Len(answered), answered[i].unread > 0
               PROVE  kind'[answered[i].req] = "streamed"
    BY DEF OnlyStreamedOvertake
  <2>1. kind[answered[i].req] = "streamed"
    BY DEF IInv, OnlyStreamedOvertake
  <2>2. answered[i].req \in 1 .. sent
    BY <1>1, <1>2
  <2> QED BY <2>1, <2>2
<1> QED BY <1>3, <1>4, <1>5

\* The client and the clock do not touch the session.
LEMMA ClientOK ==
  ASSUME IInv, Client \/ TimePasses
  PROVE  IInv'
<1> USE ConstantsAssumption
<1>1. ASSUME NEW k \in Kinds, NEW p \in 0 .. MaxParts, SendHeader(k, p)
      PROVE  IInv'
  <2>1. TypeOK'
    BY <1>1 DEF SendHeader, IInv, TypeOK
  <2>2. /\ got' = got /\ left' = left /\ state' = state /\ answered' = answered
        /\ sent' = sent + 1 /\ got \in 0 .. sent /\ sent \in Nat
        /\ \A n \in 1 .. sent : kind'[n] = kind[n]
        /\ kind'[sent + 1] = k
    BY <1>1 DEF SendHeader, IInv, TypeOK
  <2>3. InStep'
    BY <2>2 DEF IInv, InStep, ReadUpTo, Serving
  <2>4. KindOK'
    BY <2>2 DEF IInv, KindOK, Serving
  <2> QED BY <2>1, <2>2, <2>3, <2>4, NoReply DEF IInv
<1>2. CASE SendPart \/ Leave \/ TimePasses
  <2>1. TypeOK'
    <3>1. CASE SendPart
      BY <3>1 DEF SendPart, IInv, TypeOK
    <3>2. CASE Leave \/ TimePasses
      BY <3>2 DEF Leave, TimePasses, clientVars, IInv, TypeOK
    <3> QED BY <1>2, <3>1, <3>2
  <2>2. /\ got' = got /\ left' = left /\ state' = state /\ answered' = answered
        /\ sent' = sent /\ kind' = kind
    BY <1>2 DEF SendPart, Leave, TimePasses, clientVars
  <2> QED
    BY <2>1, <2>2
    DEF IInv, InStep, KindOK, ReadUpTo, Serving, OldReplies, RepliesInOrder,
        OnlyStreamedOvertake
<1> QED BY <1>1, <1>2 DEF Client

\* A step that leaves the session closed, or serving the same request.
LEMMA SameRequest ==
  ASSUME IInv, UNCHANGED <<clientVars, answered>>, TypeOK', KindOK', got' = got,
         \/ state' = "closed"
         \/ Serving /\ state' # "header"
         \/ state = "header" /\ left > 0 /\ state' # "header"
  PROVE  IInv'
<1>1. InStep'
  BY DEF IInv, InStep, ReadUpTo, Serving, TypeOK
<1>2. got \in 0 .. got' /\ sent' >= sent
  BY ConstantsAssumption DEF IInv, TypeOK, clientVars
<1> QED BY <1>1, <1>2, NoReply DEF IInv, clientVars

LEMMA ReadHeaderOK ==
  ASSUME IInv, ReadHeader
  PROVE  IInv'
<1> USE ConstantsAssumption
<1>1. /\ got \in Nat /\ sent \in 0 .. MaxReqs /\ got < sent /\ left = 0
      /\ got' = got + 1 /\ left' = parts[got + 1] /\ state = "header"
      /\ state' \in {"handler", "body", "closed"}
      /\ state' = "body" => kind[got + 1] # "streamed"
      /\ state' = "handler" => kind[got + 1] = "streamed"
      /\ UNCHANGED <<clientVars, more, late, answered>>
  BY DEF ReadHeader, HeaderArrived, Become, IInv, TypeOK
<1>2. kind[got + 1] \in {"buffered", "streamed"}
  <2>1. got + 1 \in 1 .. sent
    BY <1>1
  <2> QED BY <2>1 DEF IInv, KindOK
<1>3. TypeOK'
  BY <1>1 DEF IInv, TypeOK, clientVars, States, SocketStates
<1>4. KindOK'
  BY <1>1, <1>2 DEF IInv, KindOK, Serving, clientVars
<1>5. InStep'
  BY <1>1 DEF IInv, InStep, ReadUpTo, Serving
<1> QED BY <1>1, <1>3, <1>4, <1>5, NoReply DEF IInv, clientVars

\* A reply is written: it is the reply of the request being serviced.
LEMMA Reply ==
  ASSUME IInv, Answered, UNCHANGED <<clientVars, got, left, more>>,
         late' \in BOOLEAN,
         \/ state = "reply" /\ state' \in {"header", "closed"}
         \/ state = "last" /\ state' = "closed"
  PROVE  IInv'
<1> USE ConstantsAssumption
<1>1. /\ answered \in Seq(Replies)
      /\ got \in 1 .. MaxReqs /\ left \in 0 .. MaxParts
  BY DEF IInv, TypeOK, KindOK, Serving
<1>2. PICK n \in Nat : n = Len(answered)
  BY <1>1
<1>3. /\ n \in Nat /\ Len(answered') = n + 1
      /\ \A i \in 1 .. n : answered'[i] = answered[i]
      /\ answered'[n + 1] = [req |-> got, unread |-> left]
      /\ answered' \in Seq(Replies)
  <2>1. [req |-> got, unread |-> left] \in Replies
    BY <1>1 DEF Replies
  <2> QED BY <1>1, <1>2, <2>1 DEF Answered
<1>4. TypeOK'
  BY <1>2, <1>3 DEF IInv, TypeOK, clientVars, States, SocketStates
<1>5. KindOK'
  BY DEF IInv, KindOK, Serving, clientVars
<1>6. ReadUpTo(n) => n = got - 1
  BY <1>2 DEF IInv, InStep, Serving
<1>7. \A i \in 0 .. n : ReadUpTo(i)' <=> ReadUpTo(i)
  <2> SUFFICES ASSUME NEW i \in 0 .. n PROVE ReadUpTo(i)' <=> ReadUpTo(i)
    OBVIOUS
  <2>1. \A j \in 1 .. i : answered'[j] = answered[j]
    BY <1>2, <1>3
  <2>2. ReadUpTo(i)' <=> \A j \in 1 .. i : answered'[j].unread = 0
    BY DEF ReadUpTo
  <2>3. ReadUpTo(i) <=> \A j \in 1 .. i : answered[j].unread = 0
    BY DEF ReadUpTo
  <2> QED BY <2>1, <2>2, <2>3
<1>8. InStep'
  <2>1. ReadUpTo(n + 1)' => ReadUpTo(n) /\ left = 0
    <3>1. n + 1 \in 1 .. n + 1 /\ \A j \in 1 .. n : j \in 1 .. n + 1
      BY <1>2, <1>3
    <3> QED BY <1>2, <1>3, <3>1 DEF ReadUpTo
  <2>2. ReadUpTo(Len(answered))' => ReadUpTo(n + 1)'
    BY <1>2, <1>3 DEF ReadUpTo
  <2>3. ReadUpTo(Len(answered))' => Len(answered') = got' /\ left' = 0
    BY <1>1, <1>2, <1>3, <1>6, <2>1, <2>2
  <2>4. state' \in {"header", "closed"}
    OBVIOUS
  <2> QED BY <2>3, <2>4 DEF InStep, Serving
<1>9. RepliesInOrder'
  <2> SUFFICES ASSUME NEW i \in 1 .. n + 1, ReadUpTo(i - 1)'
               PROVE  answered'[i].req = i
    BY <1>2, <1>3 DEF RepliesInOrder
  <2>1. ReadUpTo(i - 1)
    BY <1>2, <1>3, <1>7
  <2>2. CASE i <= n
    <3>1. i \in 1 .. n
      BY <1>2, <1>3, <2>2
    <3>2. answered[i].req = i
      BY <1>2, <2>1, <3>1 DEF IInv, RepliesInOrder
    <3> QED BY <1>2, <1>3, <3>1, <3>2
  <2>3. CASE i = n + 1
    BY <1>1, <1>2, <1>3, <1>6, <2>1, <2>3
  <2> QED BY <1>2, <1>3, <2>2, <2>3
<1>10. OldReplies' /\ OnlyStreamedOvertake'
  <2> SUFFICES ASSUME NEW i \in 1 .. n + 1
               PROVE  /\ answered'[i].req <= got'
                      /\ answered'[i].unread > 0 => kind'[answered'[i].req] = "streamed"
    BY <1>2, <1>3 DEF OldReplies, OnlyStreamedOvertake
  <2>1. CASE i \in 1 .. n
    BY <1>2, <1>3, <2>1 DEF IInv, OldReplies, OnlyStreamedOvertake, clientVars
  <2>2. CASE i = n + 1
    BY <1>1, <1>2, <1>3, <2>2 DEF IInv, KindOK, clientVars
  <2> QED BY <1>2, <1>3, <2>1, <2>2
<1> QED BY <1>4, <1>5, <1>8, <1>9, <1>10 DEF IInv

LEMMA ServerOK ==
  ASSUME IInv, Server
  PROVE  IInv'
<1> USE ConstantsAssumption
<1>1. CASE TimeOut \/ ReadEnds \/ WriteFails
  <2>1. TypeOK' /\ KindOK'
    BY <1>1 DEF TimeOut, ReadEnds, WriteFails, Become, clientVars, IInv, TypeOK,
                KindOK, Serving, States, SocketStates
  <2> QED
    BY <1>1, <2>1, SameRequest DEF TimeOut, ReadEnds, WriteFails, Become
<1>2. CASE ReadHeader
  BY <1>2, ReadHeaderOK
<1>3. CASE ReadPartAsHeader
  <2>1. left > 0 /\ left' = left - 1
    BY <1>3 DEF ReadPartAsHeader, PartArrived, IInv, TypeOK
  <2>2. TypeOK'
    BY <1>3, <2>1 DEF ReadPartAsHeader, Become, clientVars, IInv, TypeOK, States, SocketStates
  <2>3. KindOK'
    BY <1>3, <2>1 DEF ReadPartAsHeader, Become, clientVars, IInv, KindOK, Serving
  <2> QED
    BY <1>3, <2>1, <2>2, <2>3, SameRequest DEF ReadPartAsHeader, Become
<1>4. CASE ReadBody
  <2>1. left' \in 0 .. left /\ left' \in 0 .. MaxParts
        /\ (state' = "handler" => left' = 0)
    BY <1>4 DEF ReadBody, Become, PartArrived, BodyRead, IInv, TypeOK
  <2>2. TypeOK'
    BY <1>4, <2>1 DEF ReadBody, Become, clientVars, IInv, TypeOK, States, SocketStates
  <2>3. KindOK'
    BY <1>4, <2>1 DEF ReadBody, Become, clientVars, IInv, KindOK, Serving
  <2> QED
    BY <1>4, <2>2, <2>3, SameRequest DEF ReadBody, Become, Serving
<1>5. CASE ReplyWritten \/ LastChunkWritten
  BY <1>5, Reply
  DEF ReplyWritten, LastChunkWritten, NextRequest, Become, clientVars, IInv, TypeOK
<1>6. CASE RunHandler \/ RunStreamingHandler \/ RunTask \/ WritePart \/ ChunkWritten
  <2>1. TypeOK'
    BY <1>6 DEF RunHandler, RunStreamingHandler, RunTask, WritePart, ChunkWritten,
                Become, clientVars, IInv, TypeOK, States, SocketStates
  <2>2. KindOK'
    BY <1>6 DEF RunHandler, RunStreamingHandler, RunTask, WritePart, ChunkWritten,
                Become, clientVars, IInv, KindOK, Serving
  <2> QED
    BY <1>6, <2>1, <2>2, SameRequest
    DEF RunHandler, RunStreamingHandler, RunTask, WritePart, ChunkWritten, Become,
        Serving
<1>7. CASE ReadPart
  <2>1. left' \in 0 .. left /\ left' \in 0 .. MaxParts
    BY <1>7 DEF ReadPart, PartArrived, IInv, TypeOK
  <2>2. TypeOK'
    BY <1>7, <2>1 DEF ReadPart, Become, clientVars, IInv, TypeOK, States, SocketStates
  <2>3. KindOK'
    BY <1>7, <2>1 DEF ReadPart, Become, clientVars, IInv, KindOK, Serving
  <2> QED
    BY <1>7, <2>2, <2>3, SameRequest DEF ReadPart, Become, Serving
<1>8. CASE BeginRead \/ ReadChunk
  <2>1. more' \in 0 .. MaxParts
    BY <1>8 DEF BeginRead, ReadChunk, MoreToRead, IInv, TypeOK
  <2>2. TypeOK'
    BY <1>8, <2>1 DEF BeginRead, ReadChunk, Become, clientVars, IInv, TypeOK,
                      States, SocketStates
  <2>3. KindOK'
    BY <1>8 DEF BeginRead, ReadChunk, Become, clientVars, IInv, KindOK, Serving
  <2> QED
    BY <1>8, <2>2, <2>3, SameRequest DEF BeginRead, ReadChunk, Become, Serving
<1> QED BY <1>1, <1>2, <1>3, <1>4, <1>5, <1>6, <1>7, <1>8 DEF Server

LEMMA StepOK == IInv /\ [Next]_vars => IInv'
<1>1. ASSUME IInv, UNCHANGED vars PROVE IInv'
  BY <1>1 DEF vars, clientVars, IInv, TypeOK, InStep, KindOK, ReadUpTo, Serving,
              OldReplies, RepliesInOrder, OnlyStreamedOvertake
<1> QED BY <1>1, ClientOK, ServerOK DEF Next

\* The invariant of a session.
THEOREM Invariance == Spec => []IInv
BY InitOK, StepOK, PTL DEF Spec

\* Every variable keeps its type.
THEOREM TypeCorrect == Spec => []TypeOK
<1>1. IInv => TypeOK
  BY DEF IInv
<1> QED BY <1>1, Invariance, PTL

\* A client that sends its requests ahead of the replies can tell them apart:
\* until a reply overtakes the body of its request, reply i is to request i.
THEOREM OrderKept == Spec => []RepliesInOrder
<1>1. IInv => RepliesInOrder
  BY DEF IInv
<1> QED BY <1>1, Invariance, PTL

\* Only op_write_streaming answers a request whose body has not been read.
THEOREM OthersWait == Spec => []OnlyStreamedOvertake
<1>1. IInv => OnlyStreamedOvertake
  BY DEF IInv
<1> QED BY <1>1, Invariance, PTL

-----------------------------------------------------------------------------
(* Numbers, and sequences laid one behind the other *)

\* A set of numbers that is not empty has a least one.  It stands for induction:
\* a statement that fails somewhere fails first at one place.
LEMMA Least ==
  ASSUME NEW T \in SUBSET Nat, T # {}
  PROVE  \E m \in T : \A k \in T : m <= k
<1> DEFINE R == {p \in Nat \X Nat : p[1] < p[2]}
<1>1. R = OpToRel(<, Nat)
  BY DEF OpToRel
<1>2. IsWellFoundedOn(R, Nat)
  BY <1>1, NatLessThanWellFounded
<1> HIDE DEF R
<1>3. PICK m \in T : \A y \in T : ~ (<<y, m>> \in R)
  BY <1>2, WFMin
<1>4. \A y \in T : ~ (y < m)
  BY <1>3 DEF R
<1> QED
  BY <1>4

\* g[i] is the first i of some sequences, one behind the other.
Joins(g, ss, S, n) ==
  /\ g \in [1 .. n -> Seq(S)]
  /\ \A i \in 1 .. n : g[i] = IF i = 1 THEN ss[i] ELSE g[i - 1] \o ss[i]

LEMMA JoinsExist ==
  ASSUME NEW S, NEW ss \in Seq(Seq(S)), NEW n \in 1 .. Len(ss)
  PROVE  \E g : Joins(g, ss, S, n)
<1> DEFINE Bad == {m \in 1 .. Len(ss) : ~ \E g : Joins(g, ss, S, m)}
<1> SUFFICES ASSUME Bad # {} PROVE FALSE
  OBVIOUS
<1>0. Bad \in SUBSET Nat
  OBVIOUS
<1>1. PICK m \in Bad : \A k \in Bad : m <= k
  BY <1>0, Least
<1>2. m \in 1 .. Len(ss) /\ Len(ss) \in Nat /\ \A i \in 1 .. Len(ss) : ss[i] \in Seq(S)
  OBVIOUS
<1>3. CASE m = 1
  <2>1. Joins([i \in 1 .. 1 |-> ss[1]], ss, S, 1)
    BY <1>2 DEF Joins
  <2> QED
    BY <1>3, <2>1
<1>4. CASE m # 1
  <2>0. m - 1 \in 1 .. Len(ss) /\ ~ (m <= m - 1)
    BY <1>2, <1>4
  <2>1. m - 1 \in 1 .. Len(ss) /\ m - 1 \notin Bad
    <3> HIDE DEF Bad
    <3> QED BY <1>1, <2>0
  <2>2. PICK g : Joins(g, ss, S, m - 1)
    BY <2>1
  <2> DEFINE h == [i \in 1 .. m |-> IF i = m THEN g[m - 1] \o ss[m] ELSE g[i]]
  <2>3. \A i \in 1 .. m - 1 : g[i] \in Seq(S)
    BY <2>2 DEF Joins
  <2>4. g[m - 1] \o ss[m] \in Seq(S)
    BY <2>1, <2>3, <1>2, ConcatProperties
  <2>5. h \in [1 .. m -> Seq(S)]
    BY <2>3, <2>4, <1>2
  <2>6. ASSUME NEW i \in 1 .. m
        PROVE  h[i] = IF i = 1 THEN ss[i] ELSE h[i - 1] \o ss[i]
    <3>1. CASE i = m
      <4>0. m \in 1 .. m /\ m - 1 \in 1 .. m /\ m - 1 # m
        BY <1>2, <1>4
      <4>1. h[m] = g[m - 1] \o ss[m] /\ h[m - 1] = g[m - 1]
        BY <4>0
      <4> HIDE DEF h
      <4> QED BY <3>1, <4>1, <1>4
    <3>2. CASE i # m
      <4>1. i \in 1 .. m - 1 /\ h[i] = g[i] /\ (i # 1 => i - 1 \in 1 .. m - 1 /\ h[i - 1] = g[i - 1])
        BY <3>2, <1>2
      <4>2. g[i] = IF i = 1 THEN ss[i] ELSE g[i - 1] \o ss[i]
        BY <4>1, <2>2 DEF Joins
      <4> QED
        BY <4>1, <4>2
    <3> QED
      BY <3>1, <3>2
  <2> HIDE DEF h
  <2>7. Joins(h, ss, S, m)
    BY <2>5, <2>6 DEF Joins
  <2> QED
    BY <2>7
<1> QED
  BY <1>3, <1>4

\* The function of FlattenSeq is the one that joins.
LEMMA FlattenJoins ==
  ASSUME NEW S, NEW ss \in Seq(Seq(S)), Len(ss) # 0
  PROVE  \E g : Joins(g, ss, S, Len(ss)) /\ FlattenSeq(ss) = g[Len(ss)]
<1> DEFINE n == Len(ss)
           F(g) == g = [i \in 1 .. n |-> IF i = 1 THEN ss[i] ELSE g[i - 1] \o ss[i]]
           flatten == CHOOSE g : F(g)
<1>0. n \in Nat /\ n \in 1 .. n
  OBVIOUS
<1>1. PICK g : Joins(g, ss, S, n)
  BY <1>0, JoinsExist
<1>2. F(g)
  BY <1>1 DEF Joins
<1>3. F(flatten)
  BY <1>2
<1>4. FlattenSeq(ss) = flatten[n]
  BY DEF FlattenSeq
<1> HIDE DEF flatten
<1> DEFINE Bad == {m \in 1 .. n : flatten[m] \notin Seq(S)}
<1>5. Bad = {}
  <2> SUFFICES ASSUME Bad # {} PROVE FALSE
    OBVIOUS
  <2>1. Bad \in SUBSET Nat
    OBVIOUS
  <2>2. PICK m \in Bad : \A k \in Bad : m <= k
    BY <2>1, Least
  <2>3. m \in 1 .. n /\ ss[m] \in Seq(S) /\ flatten[m] \notin Seq(S)
    OBVIOUS
  <2>4. flatten[m] = IF m = 1 THEN ss[m] ELSE flatten[m - 1] \o ss[m]
    BY <1>3, <2>3
  <2>5. m # 1
    BY <2>3, <2>4
  <2>6. m - 1 \in 1 .. n /\ m - 1 \notin Bad
    BY <2>2, <2>3, <2>5, <1>0
  <2>7. flatten[m - 1] \in Seq(S)
    BY <2>6
  <2> HIDE DEF n, Bad
  <2>8. flatten[m - 1] \o ss[m] \in Seq(S)
    BY <2>7, <2>3, ConcatProperties
  <2> QED
    BY <2>3, <2>4, <2>5, <2>8
<1>6. Joins(flatten, ss, S, n)
  <2>1. \A i \in 1 .. n : flatten[i] \in Seq(S)
    BY <1>5
  <2>2. flatten = [i \in 1 .. n |-> IF i = 1 THEN ss[i] ELSE flatten[i - 1] \o ss[i]]
    BY <1>3
  <2> HIDE DEF n, Bad
  <2>3. DOMAIN flatten = 1 .. n /\ \A i \in 1 .. n : flatten[i] = IF i = 1 THEN ss[i] ELSE flatten[i - 1] \o ss[i]
    BY <2>2
  <2>4. flatten = [i \in 1 .. n |-> flatten[i]]
    BY <2>2, <2>3
  <2>5. flatten \in [1 .. n -> Seq(S)]
    BY <2>1, <2>4
  <2> QED
    BY <2>3, <2>5 DEF Joins
<1> QED
  BY <1>4, <1>6

\* t begins with s; s lies in d behind the place a.
Begins(s, t) == Len(s) <= Len(t) /\ \A j \in 1 .. Len(s) : t[j] = s[j]

Lies(d, a, s) == a + Len(s) <= Len(d) /\ \A j \in 1 .. Len(s) : d[a + j] = s[j]

\* The sequences ss lie in d one behind the other, ss[k] behind a[k - 1].
LaidOut(a, d, ss) ==
  /\ a \in [0 .. Len(ss) -> Nat] /\ a[0] = 0 /\ a[Len(ss)] = Len(d)
  /\ \A k \in 1 .. Len(ss) : a[k] = a[k - 1] + Len(ss[k]) /\ Lies(d, a[k - 1], ss[k])

Adds(w, s, t) == Len(w) = Len(s) + Len(t)

LEMMA ConcatBegins ==
  ASSUME NEW S, NEW s \in Seq(S), NEW t \in Seq(S)
  PROVE  Adds(s \o t, s, t) /\ Begins(s, s \o t) /\ Lies(s \o t, Len(s), t)
<1>1. s \o t \in Seq(S) /\ Len(s \o t) = Len(s) + Len(t) /\ Len(s) \in Nat /\ Len(t) \in Nat
  BY ConcatProperties
<1>2. \A i \in 1 .. Len(s) + Len(t) : (s \o t)[i] = IF i <= Len(s) THEN s[i] ELSE t[i - Len(s)]
  BY ConcatProperties
<1> QED
  BY <1>1, <1>2 DEF Adds, Begins, Lies

LEMMA BeginsLies ==
  ASSUME NEW S, NEW d \in Seq(S), NEW e \in Seq(S), Begins(d, e),
         NEW a \in Nat, NEW s \in Seq(S), Lies(d, a, s)
  PROVE  Lies(e, a, s)
<1>1. Len(d) \in Nat /\ Len(e) \in Nat /\ Len(s) \in Nat
  OBVIOUS
<1>2. \A j \in 1 .. Len(s) : a + j \in 1 .. Len(d)
  BY <1>1 DEF Lies
<1> QED
  BY <1>1, <1>2 DEF Begins, Lies

LEMMA BeginsTransitive ==
  ASSUME NEW S, NEW s \in Seq(S), NEW t \in Seq(S), NEW u \in Seq(S),
         Begins(s, t), Begins(t, u)
  PROVE  Begins(s, u)
<1>1. Len(s) \in Nat /\ Len(t) \in Nat /\ Len(u) \in Nat
  OBVIOUS
<1> QED
  BY <1>1 DEF Begins

\* Three sequences in one.
Three(w, s, t, u) ==
  /\ Len(w) = Len(s) + Len(t) + Len(u)
  /\ Lies(w, 0, s) /\ Lies(w, Len(s), t) /\ Lies(w, Len(s) + Len(t), u)

LEMMA ThreeLie ==
  ASSUME NEW S, NEW s \in Seq(S), NEW t \in Seq(S), NEW u \in Seq(S), NEW w,
         w = (s \o t) \o u
  PROVE  w \in Seq(S) /\ Three(w, s, t, u)
<1>1. Len(s) \in Nat /\ Len(t) \in Nat /\ Len(u) \in Nat
  OBVIOUS
<1>2. s \o t \in Seq(S) /\ Len(s \o t) = Len(s) + Len(t)
  BY ConcatProperties
<1>3. w \in Seq(S) /\ Len(w) = Len(s) + Len(t) + Len(u)
  BY <1>1, <1>2, ConcatProperties
<1>4. Begins(s, s \o t) /\ Lies(s \o t, Len(s), t)
  BY ConcatBegins
<1>5. Begins(s \o t, w) /\ Lies(w, Len(s) + Len(t), u)
  BY <1>2, ConcatBegins
<1>6. Lies(w, Len(s), t)
  BY <1>1, <1>2, <1>3, <1>4, <1>5, BeginsLies
<1>7. Begins(s, w)
  BY <1>2, <1>3, <1>4, <1>5, BeginsTransitive
<1>8. Lies(w, 0, s)
  BY <1>1, <1>7 DEF Begins, Lies
<1> QED
  BY <1>3, <1>5, <1>6, <1>8 DEF Three

LEMMA JoinsBegin ==
  ASSUME NEW S, NEW ss \in Seq(Seq(S)), NEW g, Joins(g, ss, S, Len(ss)),
         NEW k \in 1 .. Len(ss)
  PROVE  Begins(g[k], g[Len(ss)])
<1> DEFINE n == Len(ss)
           Bad == {m \in 0 .. n - 1 : ~ Begins(g[n - m], g[n])}
<1>0. n \in Nat /\ \A i \in 1 .. n : g[i] \in Seq(S) /\ ss[i] \in Seq(S)
  <2>1. n \in Nat /\ \A i \in 1 .. n : ss[i] \in Seq(S)
    OBVIOUS
  <2>2. \A i \in 1 .. n : g[i] \in Seq(S)
    BY Zenon DEF Joins
  <2> QED BY <2>1, <2>2
<1>1. Bad = {}
  <2> SUFFICES ASSUME Bad # {} PROVE FALSE
    OBVIOUS
  <2>1. Bad \in SUBSET Nat
    OBVIOUS
  <2>2. PICK m \in Bad : \A i \in Bad : m <= i
    BY <2>1, Least
  <2>3. m \in 0 .. n - 1 /\ ~ Begins(g[n - m], g[n])
    OBVIOUS
  <2>4. m # 0
    BY <2>3, <1>0 DEF Begins
  <2>5. m - 1 \in 0 .. n - 1 /\ ~ (m <= m - 1) /\ n - m \in 1 .. n /\ n - m + 1 \in 1 .. n
        /\ n - (m - 1) = n - m + 1 /\ (n - m + 1) - 1 = n - m /\ n - m + 1 # 1
    <3> HIDE DEF Bad, n
    <3> QED BY <2>3, <2>4, <1>0
  <2>6. m - 1 \notin Bad
    <3> HIDE DEF Bad
    <3> QED BY <2>2, <2>5
  <2>7. Begins(g[n - m + 1], g[n])
    BY <2>5, <2>6
  <2>8. g[n - m + 1] = g[n - m] \o ss[n - m + 1]
    BY <2>5 DEF Joins
  <2> HIDE DEF Bad, n
  <2>9. Begins(g[n - m], g[n - m + 1])
    BY <2>5, <2>8, <1>0, ConcatBegins
  <2>10. g[n - m] \in Seq(S) /\ g[n - m + 1] \in Seq(S) /\ g[n] \in Seq(S)
    BY <2>5, <1>0
  <2>11. Begins(g[n - m], g[n])
    BY <2>7, <2>9, <2>10, BeginsTransitive
  <2> QED BY <2>3, <2>11
<1>2. n - k \in 0 .. n - 1 /\ n - (n - k) = k
  OBVIOUS
<1> QED
  BY <1>1, <1>2

LEMMA FlattenLays ==
  ASSUME NEW S, NEW ss \in Seq(Seq(S))
  PROVE  /\ FlattenSeq(ss) \in Seq(S)
         /\ \E a : LaidOut(a, FlattenSeq(ss), ss)
<1> DEFINE n == Len(ss)
           d == FlattenSeq(ss)
<1>1. CASE n = 0
  <2>1. d = <<>> /\ ss = <<>>
    BY <1>1 DEF FlattenSeq
  <2>2. LaidOut([i \in 0 .. 0 |-> 0], d, ss)
    BY <2>1 DEF LaidOut
  <2> QED BY <2>1, <2>2
<1>2. CASE n # 0
  <2>1. PICK g : Joins(g, ss, S, n) /\ d = g[n]
    BY <1>2, FlattenJoins
  <2>2. n \in Nat /\ n \in 1 .. n
    BY <1>2
  <2>3. \A i \in 1 .. n : g[i] \in Seq(S) /\ ss[i] \in Seq(S) /\ Len(g[i]) \in Nat
    <3>1. \A i \in 1 .. n : ss[i] \in Seq(S)
      OBVIOUS
    <3>2. \A i \in 1 .. n : g[i] \in Seq(S)
      BY <2>1, Zenon DEF Joins
    <3>3. \A i \in 1 .. n : Len(g[i]) \in Nat
      BY <3>2
    <3> QED BY <3>1, <3>2, <3>3
  <2> DEFINE a == [i \in 0 .. n |-> IF i = 0 THEN 0 ELSE Len(g[i])]
  <2>4. a \in [0 .. n -> Nat]
    BY <2>3
  <2>5. a[0] = 0 /\ a[n] = Len(d) /\ \A k \in 1 .. n : a[k] = Len(g[k])
    BY <2>1, <2>2
  <2>6. ASSUME NEW k \in 1 .. n
        PROVE  a[k] = a[k - 1] + Len(ss[k]) /\ Lies(d, a[k - 1], ss[k])
    <3> HIDE DEF a, d, n
    <3>1. CASE k = 1
      <4>1. g[1] = ss[1] /\ Begins(g[1], g[n])
        BY <2>1, <2>2, <3>1, JoinsBegin DEF Joins, n
      <4> QED
        BY <4>1, <2>1, <2>3, <2>5, <3>1 DEF Begins, Lies
    <3>2. CASE k # 1
      <4>1. k - 1 \in 1 .. n
        BY <2>2, <3>2
      <4>2. g[k] = g[k - 1] \o ss[k]
        BY <2>1, <3>2 DEF Joins
      <4>3. Len(g[k]) = Len(g[k - 1]) + Len(ss[k])
        BY <4>1, <4>2, <2>3, ConcatProperties
      <4>4. Lies(g[k], Len(g[k - 1]), ss[k])
        BY <4>1, <4>2, <2>3, ConcatBegins
      <4>5. Begins(g[k], g[n])
        BY <2>1, JoinsBegin DEF n
      <4>6. Lies(g[n], Len(g[k - 1]), ss[k])
        BY <4>1, <4>4, <4>5, <2>2, <2>3, BeginsLies
      <4> QED
        BY <4>1, <4>3, <4>6, <2>1, <2>5
    <3> QED BY <3>1, <3>2
  <2>7. d \in Seq(S)
    BY <2>1, <2>2, <2>3
  <2> HIDE DEF a, d
  <2>8. LaidOut(a, d, ss)
    BY <2>4, <2>5, <2>6 DEF LaidOut
  <2> QED BY <2>7, <2>8 DEF d
<1> QED
  BY <1>1, <1>2

-----------------------------------------------------------------------------
(* What is sent *)

Tokens ==
  Names \cup Characters \cup {NameToken(n) : n \in Names} \cup {Escape(c) : c \in Characters}
  \cup {"boundary", "crlf", "dashes", "disposition", "type", ":", "x", "+", "&", "="}

LEMMA ValueType ==
  ASSUME NEW p \in Pairs
  PROVE  /\ p.name \in Names /\ p.value \in Values
         /\ p.value \in Seq(Characters) /\ Len(p.value) \in Nat
         /\ p.value \in Seq(Tokens)
         /\ \A j \in 1 .. Len(p.value) : p.value[j] \in Characters
<1>1. p.name \in Names /\ p.value \in Values
  BY DEF Pairs
<1>2. p.value \in Seq(Characters)
  BY <1>1, ArgumentsAssumption
<1>3. Characters \subseteq Tokens
  BY DEF Tokens
<1>4. p.value \in Seq(Tokens)
  BY <1>2, <1>3, SeqMonotonic
<1> QED
  BY <1>1, <1>2, <1>4

\* The token at i is t, unless the text ends before it.
Shows(d, i, t) == i <= Len(d) => d[i] = t

\* As far as d goes, s is behind the place a.
Partly(d, a, s) == \A j \in 1 .. Len(s) : Shows(d, a + j, s[j])

PartTokens(w, p) ==
  /\ Len(w) = 12 + Len(p.value)
  /\ w[1] = "boundary" /\ w[2] = "crlf" /\ w[3] = "disposition" /\ w[4] = ":"
  /\ w[5] = NameToken(p.name) /\ w[6] = "crlf" /\ w[7] = "type" /\ w[8] = ":"
  /\ w[9] = "x" /\ w[10] = "crlf" /\ w[11] = "crlf"
  /\ \A j \in 1 .. Len(p.value) : w[11 + j] = p.value[j]
  /\ w[12 + Len(p.value)] = "crlf"

LEMMA PartTextIs ==
  ASSUME NEW p \in Pairs
  PROVE  PartText(p) \in Seq(Tokens) /\ PartTokens(PartText(p), p)
<1> DEFINE h == <<"boundary", "crlf", "disposition", ":", NameToken(p.name), "crlf",
                  "type", ":", "x", "crlf", "crlf">>
           v == p.value
<1>1. NameToken(p.name) \in Tokens
  BY ValueType DEF Tokens
<1>2. h \in Seq(Tokens) /\ Len(h) = 11
  BY <1>1 DEF Tokens
<1>3. /\ h[1] = "boundary" /\ h[2] = "crlf" /\ h[3] = "disposition" /\ h[4] = ":"
      /\ h[5] = NameToken(p.name) /\ h[6] = "crlf" /\ h[7] = "type" /\ h[8] = ":"
      /\ h[9] = "x" /\ h[10] = "crlf" /\ h[11] = "crlf"
  OBVIOUS
<1>4. v \in Seq(Tokens) /\ Len(v) \in Nat
  BY ValueType
<1> DEFINE c == <<"crlf">>
           w == PartText(p)
<1>5. c \in Seq(Tokens) /\ Len(c) = 1 /\ c[1] = "crlf"
  BY DEF Tokens
<1>6. w = (h \o v) \o c
  BY DEF PartText
<1> HIDE DEF h, v, c, w
<1>7. w \in Seq(Tokens) /\ Three(w, h, v, c)
  BY <1>2, <1>4, <1>5, <1>6, ThreeLie
<1>8. /\ Len(w) = Len(h) + Len(v) + Len(c)
      /\ Lies(w, 0, h) /\ Lies(w, Len(h), v) /\ Lies(w, Len(h) + Len(v), c)
  BY <1>7 DEF Three
<1>9. \A i \in 1 .. 11 : w[i] = h[i]
  BY <1>2, <1>8 DEF Lies
<1>10. \A j \in 1 .. Len(v) : w[11 + j] = v[j]
  BY <1>2, <1>8 DEF Lies
<1>11. w[12 + Len(v)] = "crlf"
  BY <1>2, <1>4, <1>5, <1>8 DEF Lies
<1>12. Len(w) = 12 + Len(v)
  BY <1>2, <1>4, <1>5, <1>8
<1>13. /\ w[1] = "boundary" /\ w[2] = "crlf" /\ w[3] = "disposition" /\ w[4] = ":"
       /\ w[5] = NameToken(p.name) /\ w[6] = "crlf" /\ w[7] = "type" /\ w[8] = ":"
       /\ w[9] = "x" /\ w[10] = "crlf" /\ w[11] = "crlf"
  BY <1>3, <1>9
<1> QED
  BY <1>7, <1>10, <1>11, <1>12, <1>13 DEF PartTokens, v, w

\* Where the pair is, and what is before its name.
Sep(k) == IF k = 0 THEN 0 ELSE 1

PairTokens(w, k, p, plus) ==
  /\ Len(w) = Sep(k) + 2 + Len(p.value)
  /\ k # 0 => w[1] = "&"
  /\ w[Sep(k) + 1] = p.name /\ w[Sep(k) + 2] = "="
  /\ \A j \in 1 .. Len(p.value) : w[Sep(k) + 2 + j] = Escaped(p.value[j], plus)

LEMMA PairTextIs ==
  ASSUME NEW f \in Seq(Pairs), NEW i \in 1 .. Len(f), NEW plus
  PROVE  /\ PairText(f, i, plus) \in Seq(Tokens)
         /\ PairTokens(PairText(f, i, plus), i - 1, f[i], plus)
<1> DEFINE s == IF i = 1 THEN <<>> ELSE <<"&">>
           n == <<f[i].name, "=">>
           v == f[i].value
           e == [j \in DOMAIN v |-> Escaped(v[j], plus)]
           w == PairText(f, i, plus)
<1>0. f[i] \in Pairs
  OBVIOUS
<1>1. f[i].name \in Tokens /\ {"=", "&", "+", "x"} \subseteq Tokens
  BY <1>0, ValueType DEF Tokens
<1>2. s \in Seq(Tokens) /\ Len(s) = Sep(i - 1) /\ (i # 1 => s[1] = "&") /\ Sep(i - 1) \in Nat
  BY <1>1 DEF Sep
<1>3. n \in Seq(Tokens) /\ Len(n) = 2 /\ n[1] = f[i].name /\ n[2] = "="
  BY <1>1
<1>4. v \in Seq(Characters) /\ Len(v) \in Nat /\ DOMAIN v = 1 .. Len(v)
      /\ \A j \in 1 .. Len(v) : v[j] \in Characters
  BY <1>0, ValueType
<1>5. \A j \in 1 .. Len(v) : Escaped(v[j], plus) \in Tokens
  BY <1>4, <1>1 DEF Escaped, Tokens
<1>6. e \in Seq(Tokens) /\ Len(e) = Len(v) /\ \A j \in 1 .. Len(v) : e[j] = Escaped(v[j], plus)
  <2> HIDE DEF v
  <2> QED BY <1>4, <1>5
<1>7. w = (s \o n) \o e
  BY DEF PairText
<1> HIDE DEF s, n, v, e, w
<1>8. w \in Seq(Tokens) /\ Three(w, s, n, e)
  BY <1>2, <1>3, <1>6, <1>7, ThreeLie
<1>9. /\ Len(w) = Len(s) + Len(n) + Len(e)
      /\ Lies(w, 0, s) /\ Lies(w, Len(s), n) /\ Lies(w, Len(s) + Len(n), e)
  BY <1>8 DEF Three
<1>10. i # 1 => w[1] = "&"
  <2> SUFFICES ASSUME i # 1 PROVE w[1] = "&"
    OBVIOUS
  <2>1. Sep(i - 1) = 1
    BY DEF Sep
  <2> QED BY <2>1, <1>2, <1>9 DEF Lies
<1>11. w[Sep(i - 1) + 1] = f[i].name /\ w[Sep(i - 1) + 2] = "="
  BY <1>2, <1>3, <1>9 DEF Lies
<1>12. \A j \in 1 .. Len(v) : w[Sep(i - 1) + 2 + j] = Escaped(v[j], plus)
  <2>1. Len(s) + Len(n) = Sep(i - 1) + 2
    BY <1>2, <1>3
  <2>2. \A j \in 1 .. Len(e) : w[Len(s) + Len(n) + j] = e[j]
    BY <1>9, Zenon DEF Lies
  <2> QED BY <1>6, <2>1, <2>2
<1>13. Len(w) = Sep(i - 1) + 2 + Len(v)
  BY <1>2, <1>3, <1>6, <1>9
<1>14. i - 1 # 0 => i # 1
  OBVIOUS
<1> QED
  BY <1>8, <1>10, <1>11, <1>12, <1>13, <1>14, Zenon DEF w, v, PairTokens

Ending == <<"boundary", "dashes", "crlf">>

\* Where the parts of a form are in what is left of it.
PartsAt(f, d, a) ==
  /\ a \in [0 .. Len(f) -> Nat] /\ a[0] = 0 /\ Len(d) <= a[Len(f)] + 3
  /\ \A k \in 0 .. Len(f) - 1 :
       /\ a[k + 1] = a[k] + 12 + Len(f[k + 1].value) /\ a[k + 1] <= a[Len(f)]
       /\ Partly(d, a[k], PartText(f[k + 1]))
  /\ Partly(d, a[Len(f)], Ending)

\* Where the pairs are.
PairsAt(f, d, a, plus) ==
  /\ a \in [0 .. Len(f) -> Nat] /\ a[0] = 0 /\ a[Len(f)] = Len(d)
  /\ \A k \in 0 .. Len(f) - 1 :
       /\ a[k + 1] = a[k] + Sep(k) + 2 + Len(f[k + 1].value)
       /\ Lies(d, a[k], PairText(f, k + 1, plus))

LEMMA LiesPartly ==
  ASSUME NEW d, NEW a, NEW s, Lies(d, a, s)
  PROVE  Partly(d, a, s)
  BY DEF Lies, Partly, Shows

LEMMA MultipartIs ==
  ASSUME NEW f \in Seq(Pairs)
  PROVE  /\ Multipart(f) \in Seq(Tokens)
         /\ \E a : PartsAt(f, Multipart(f), a) /\ Len(Multipart(f)) = a[Len(f)] + 3
<1> DEFINE ss == [i \in DOMAIN f |-> PartText(f[i])]
           b == FlattenSeq(ss)
           t == Ending
           d == Multipart(f)
<1>0. Len(f) \in Nat /\ DOMAIN f = 1 .. Len(f) /\ \A i \in 1 .. Len(f) : f[i] \in Pairs
  OBVIOUS
<1>1. \A i \in 1 .. Len(f) : PartText(f[i]) \in Seq(Tokens)
  BY <1>0, PartTextIs
<1>2. ss \in Seq(Seq(Tokens)) /\ Len(ss) = Len(f) /\ \A i \in 1 .. Len(f) : ss[i] = PartText(f[i])
  BY <1>0, <1>1
<1>3. d = b \o t
  BY DEF Multipart, Ending
<1>4. t \in Seq(Tokens) /\ Len(t) = 3 /\ t[1] = "boundary" /\ t[2] = "dashes" /\ t[3] = "crlf"
  BY DEF Tokens, Ending
<1> HIDE DEF ss, t, d
<1>5. b \in Seq(Tokens)
  BY <1>2, FlattenLays
<1>6. PICK a : LaidOut(a, b, ss)
  BY <1>2, FlattenLays
<1> HIDE DEF b
<1>7. a \in [0 .. Len(f) -> Nat] /\ a[0] = 0 /\ a[Len(f)] = Len(b)
  BY <1>2, <1>6 DEF LaidOut
<1>8. d \in Seq(Tokens) /\ Len(d) = Len(b) + 3
  <2>1. Adds(d, b, t)
    BY <1>3, <1>4, <1>5, ConcatBegins
  <2> QED BY <2>1, <1>3, <1>4, <1>5, ConcatProperties DEF Adds
<1>9. Begins(b, d) /\ Lies(d, Len(b), t)
  BY <1>3, <1>4, <1>5, ConcatBegins
<1>10. ASSUME NEW k \in 0 .. Len(f) - 1
       PROVE  /\ a[k + 1] = a[k] + 12 + Len(f[k + 1].value) /\ a[k + 1] <= a[Len(f)]
              /\ Partly(d, a[k], PartText(f[k + 1]))
  <2>1. k + 1 \in 1 .. Len(f) /\ (k + 1) - 1 = k /\ k \in 0 .. Len(f)
    BY <1>0
  <2>2. f[k + 1] \in Pairs /\ ss[k + 1] = PartText(f[k + 1]) /\ a[k] \in Nat
    BY <2>1, <1>0, <1>2, <1>7
  <2>3. a[k + 1] = a[k] + Len(ss[k + 1]) /\ Lies(b, a[k], ss[k + 1])
    BY <2>1, <1>2, <1>6 DEF LaidOut
  <2>4. ss[k + 1] \in Seq(Tokens) /\ Len(ss[k + 1]) = 12 + Len(f[k + 1].value)
    BY <2>2, PartTextIs DEF PartTokens
  <2>5. Lies(d, a[k], ss[k + 1])
    BY <2>2, <2>3, <2>4, <1>5, <1>8, <1>9, BeginsLies
  <2>6. Partly(d, a[k], ss[k + 1])
    BY <2>5, LiesPartly
  <2>7. Len(f[k + 1].value) \in Nat
    BY <2>2, ValueType
  <2>8. a[k + 1] = a[k] + 12 + Len(f[k + 1].value)
    <3> DEFINE m == Len(f[k + 1].value)
    <3>1. m \in Nat /\ Len(ss[k + 1]) = 12 + m
      BY <2>4, <2>7
    <3> HIDE DEF m
    <3>2. a[k + 1] = a[k] + 12 + m
      BY <2>2, <2>3, <3>1
    <3> QED BY <3>2 DEF m
  <2>9. a[k + 1] <= a[Len(f)]
    BY <1>7, <2>3 DEF Lies
  <2> QED BY <2>2, <2>6, <2>8, <2>9
<1>11. Partly(d, a[Len(f)], Ending)
  BY <1>7, <1>9, LiesPartly DEF t
<1>12. Len(d) = a[Len(f)] + 3 /\ a[Len(f)] \in Nat
  BY <1>7, <1>8, <1>0
<1>13. PartsAt(f, d, a)
  BY <1>7, <1>10, <1>11, <1>12 DEF PartsAt
<1> QED
  BY <1>8, <1>12, <1>13 DEF d

\* What is left of a form that ends early.
LEMMA CutIs ==
  ASSUME NEW f \in Seq(Pairs), NEW d \in Seq(Tokens), NEW a, PartsAt(f, d, a),
         NEW n \in 0 .. Len(d)
  PROVE  SubSeq(d, 1, n) \in Seq(Tokens) /\ PartsAt(f, SubSeq(d, 1, n), a)
<1> DEFINE c == SubSeq(d, 1, n)
<1>1. Len(d) \in Nat /\ n \in Nat /\ Len(f) \in Nat
  OBVIOUS
<1>2. c \in Seq(Tokens) /\ Len(c) = n /\ \A i \in 1 .. n : c[i] = d[i]
  BY <1>1
<1> HIDE DEF c
<1>3. ASSUME NEW m \in Nat, NEW s, Len(s) \in Nat, Partly(d, m, s)
      PROVE  Partly(c, m, s)
  <2> SUFFICES ASSUME NEW j \in 1 .. Len(s), m + j <= Len(c)
               PROVE  c[m + j] = s[j]
    BY DEF Partly, Shows
  <2>1. m + j \in 1 .. n /\ m + j <= Len(d)
    BY <1>1, <1>2, <1>3
  <2>2. d[m + j] = s[j]
    BY <1>3, <2>1 DEF Partly, Shows
  <2> QED BY <1>2, <2>1, <2>2
<1>4. a \in [0 .. Len(f) -> Nat] /\ a[Len(f)] \in Nat
  <2>1. a \in [0 .. Len(f) -> Nat]
    BY DEF PartsAt
  <2> QED BY <1>1, <2>1
<1>5. ASSUME NEW k \in 0 .. Len(f) - 1
      PROVE  Partly(c, a[k], PartText(f[k + 1]))
  <2>1. f[k + 1] \in Pairs /\ a[k] \in Nat
    BY <1>1, <1>4
  <2>2. Partly(d, a[k], PartText(f[k + 1]))
    BY DEF PartsAt
  <2>3. Len(PartText(f[k + 1])) \in Nat
    BY <2>1, PartTextIs
  <2> QED BY <1>3, <2>1, <2>2, <2>3
<1>6. Partly(c, a[Len(f)], Ending)
  <2>1. Len(Ending) \in Nat
    BY DEF Ending
  <2> QED BY <1>3, <1>4, <2>1 DEF PartsAt
<1>7. Len(c) <= a[Len(f)] + 3
  BY <1>1, <1>2, <1>4 DEF PartsAt
<1>8. PartsAt(f, c, a)
  BY <1>5, <1>6, <1>7 DEF PartsAt
<1> QED
  BY <1>2, <1>8 DEF c

LEMMA UrlEncodedIs ==
  ASSUME NEW f \in Seq(Pairs), NEW plus
  PROVE  /\ UrlEncoded(f, plus) \in Seq(Tokens)
         /\ \E a : PairsAt(f, UrlEncoded(f, plus), a, plus)
<1> DEFINE ss == [i \in DOMAIN f |-> PairText(f, i, plus)]
           d == FlattenSeq(ss)
<1>0. Len(f) \in Nat /\ DOMAIN f = 1 .. Len(f) /\ \A i \in 1 .. Len(f) : f[i] \in Pairs
  OBVIOUS
<1>1. \A i \in 1 .. Len(f) : PairText(f, i, plus) \in Seq(Tokens)
  BY PairTextIs
<1>2. ss \in Seq(Seq(Tokens)) /\ Len(ss) = Len(f)
      /\ \A i \in 1 .. Len(f) : ss[i] = PairText(f, i, plus)
  BY <1>0, <1>1
<1>3. d = UrlEncoded(f, plus)
  BY DEF UrlEncoded
<1> HIDE DEF ss
<1>4. d \in Seq(Tokens)
  BY <1>2, FlattenLays
<1>5. PICK a : LaidOut(a, d, ss)
  BY <1>2, FlattenLays
<1> HIDE DEF d
<1>6. a \in [0 .. Len(f) -> Nat] /\ a[0] = 0 /\ a[Len(f)] = Len(d)
  BY <1>2, <1>5 DEF LaidOut
<1>7. ASSUME NEW k \in 0 .. Len(f) - 1
      PROVE  /\ a[k + 1] = a[k] + Sep(k) + 2 + Len(f[k + 1].value)
             /\ Lies(d, a[k], PairText(f, k + 1, plus))
  <2>1. k + 1 \in 1 .. Len(f) /\ (k + 1) - 1 = k /\ k \in 0 .. Len(f)
    BY <1>0
  <2>2. f[k + 1] \in Pairs /\ ss[k + 1] = PairText(f, k + 1, plus) /\ a[k] \in Nat
    BY <2>1, <1>0, <1>2, <1>6
  <2>3. a[k + 1] = a[k] + Len(ss[k + 1]) /\ Lies(d, a[k], ss[k + 1])
    BY <2>1, <1>2, <1>5 DEF LaidOut
  <2> DEFINE m == Len(f[k + 1].value)
  <2>4. m \in Nat /\ Sep(k) \in Nat
    BY <2>2, ValueType DEF Sep
  <2>5. Len(ss[k + 1]) = Sep(k) + 2 + m
    BY <2>1, <2>2, PairTextIs DEF PairTokens
  <2> HIDE DEF m
  <2>6. a[k + 1] = a[k] + Sep(k) + 2 + m
    BY <2>2, <2>3, <2>4, <2>5
  <2> QED BY <2>2, <2>3, <2>6 DEF m
<1>8. PairsAt(f, d, a, plus)
  BY <1>6, <1>7 DEF PairsAt
<1> QED
  BY <1>3, <1>4, <1>8

LEMMA RemoveType ==
  ASSUME NEW S, NEW d \in Seq(S), NEW i \in 1 .. Len(d)
  PROVE  RemoveAt(d, i) \in Seq(S)
<1>1. SubSeq(d, 1, i - 1) \in Seq(S) /\ SubSeq(d, i + 1, Len(d)) \in Seq(S)
  <2>1. Len(d) \in Nat /\ i \in Nat /\ \A j \in 1 .. Len(d) : d[j] \in S
    OBVIOUS
  <2>2. \A j \in 1 .. i - 1 : d[j] \in S
    BY <2>1
  <2>3. \A j \in i + 1 .. Len(d) : d[j] \in S
    BY <2>1
  <2> QED
    BY <2>1, <2>2, <2>3, SubSeqProperties
<1> QED
  BY <1>1, ConcatProperties DEF RemoveAt

-----------------------------------------------------------------------------
(* The parser and the list of arguments *)

\* Find returns the first place of a token, or there is none.
IsFound(r, t, from) ==
  \/ r = 0 /\ \A i \in from .. Len(data) : data[i] # t
  \/ /\ r \in from .. Len(data) /\ data[r] = t
     /\ \A i \in from .. r - 1 : data[i] # t

LEMMA FindIs ==
  ASSUME data \in Seq(Tokens), NEW t, NEW from \in Nat \ {0}
  PROVE  IsFound(Find(t, from), t, from)
<1> DEFINE T == {i \in from .. Len(data) : data[i] = t}
<1>0. Len(data) \in Nat /\ T \in SUBSET Nat
  OBVIOUS
<1>1. CASE T = {}
  <2>1. \A i \in from .. Len(data) : data[i] # t
    BY <1>1
  <2>2. Find(t, from) = 0
    BY <2>1 DEF Find
  <2> QED BY <2>1, <2>2 DEF IsFound
<1>2. CASE T # {}
  <2>1. PICK m \in T : \A k \in T : m <= k
    BY <1>0, <1>2, Least
  <2>2. m \in from .. Len(data) /\ data[m] = t
    OBVIOUS
  <2>3. \A k \in from .. m - 1 : data[k] # t
    <3> SUFFICES ASSUME NEW k \in from .. m - 1, data[k] = t PROVE FALSE
      OBVIOUS
    <3>1. k \in T /\ ~ (m <= k)
      BY <1>0, <2>2
    <3> HIDE DEF T
    <3> QED BY <2>1, <3>1
  <2> DEFINE P(i) == data[i] = t /\ \A k \in from .. i - 1 : data[k] # t
             r == CHOOSE i \in from .. Len(data) : P(i)
  <2>4. r \in from .. Len(data) /\ P(r)
    BY <2>2, <2>3
  <2>5. Find(t, from) = r
    BY <2>2 DEF Find
  <2> HIDE DEF r
  <2> QED BY <2>4, <2>5 DEF IsFound
<1> QED
  BY <1>1, <1>2

\* The first k arguments of the form, as the code decodes them.
DecodedFirst(as, k) ==
  /\ as = [n \in DOMAIN as |-> as[n]]
  /\ DOMAIN as = {form[i].name : i \in 1 .. k}
  /\ \A i \in 1 .. k :
       as[form[i].name] =
         LET v == form[i].value
         IN IF content = "multipart" THEN v ELSE [j \in DOMAIN v |-> PlusIsSpace(v[j])]

Distinct(f) == \A i, j \in DOMAIN f : f[i].name = f[j].name => i = j

LEMMA DecodedArrives ==
  ASSUME form \in Seq(Pairs), Distinct(form), NEW k \in 0 .. Len(form), DecodedFirst(args, k)
  PROVE  Gets(args, SubSeq(form, 1, k))
<1> DEFINE f == SubSeq(form, 1, k)
           D(v) == IF content = "multipart" THEN v ELSE [j \in DOMAIN v |-> PlusIsSpace(v[j])]
<1>1. DOMAIN f = 1 .. k /\ \A i \in 1 .. k : f[i] = form[i] /\ i \in DOMAIN form
  OBVIOUS
<1> HIDE DEF f
<1>2. DOMAIN args = {f[i].name : i \in DOMAIN f}
  <2>1. {f[i].name : i \in DOMAIN f} = {form[i].name : i \in 1 .. k}
    BY <1>1
  <2> QED BY <2>1 DEF DecodedFirst
<1>3. ASSUME NEW i \in DOMAIN f
      PROVE  /\ DOMAIN args[f[i].name] = DOMAIN f[i].value
             /\ \A j \in DOMAIN f[i].value : Arrives(f[i].value[j], args[f[i].name][j])
  <2>1. args[form[i].name] = D(form[i].value)
    BY <1>1, <1>3, Zenon DEF DecodedFirst
  <2>2. args[f[i].name] = D(f[i].value)
    BY <1>1, <1>3, <2>1
  <2> HIDE DEF f
  <2>3. ASSUME NEW v
        PROVE  DOMAIN D(v) = DOMAIN v /\ \A j \in DOMAIN v : Arrives(v[j], D(v)[j])
    <3>1. CASE content = "multipart"
      BY <3>1 DEF Arrives
    <3>2. CASE content # "multipart"
      <4>1. D(v) = [j \in DOMAIN v |-> PlusIsSpace(v[j])]
        BY <3>2
      <4>2. \A c : Arrives(c, PlusIsSpace(c))
        BY <3>2 DEF Arrives, PlusIsSpace
      <4> HIDE DEF D
      <4>3. DOMAIN D(v) = DOMAIN v /\ \A j \in DOMAIN v : D(v)[j] = PlusIsSpace(v[j])
        BY <4>1
      <4> QED BY <4>2, <4>3
    <3> QED BY <3>1, <3>2
  <2> HIDE DEF D
  <2> QED BY <2>2, <2>3, Zenon
<1> QED
  BY <1>2, <1>3 DEF Gets, f

\* One argument more.
LEMMA DecodedNext ==
  ASSUME form \in Seq(Pairs), Distinct(form), NEW k \in 0 .. Len(form) - 1, NEW as, NEW v,
         DecodedFirst(as, k),
         v = LET w == form[k + 1].value
             IN IF content = "multipart" THEN w ELSE [j \in DOMAIN w |-> PlusIsSpace(w[j])]
  PROVE  DecodedFirst(Assign(as, form[k + 1].name, v), k + 1)
<1> DEFINE m == form[k + 1].name
           bs == Assign(as, m, v)
           D(w) == IF content = "multipart" THEN w ELSE [j \in DOMAIN w |-> PlusIsSpace(w[j])]
<1>1. 1 .. k + 1 = 1 .. k \cup {k + 1} /\ 1 .. k + 1 \subseteq DOMAIN form
      /\ \A i \in 1 .. k : i # k + 1
  OBVIOUS
<1>2. \A i \in 1 .. k : form[i].name # m
  BY <1>1 DEF Distinct
<1>3. DOMAIN as = {form[i].name : i \in 1 .. k}
  BY DEF DecodedFirst
<1>4. DOMAIN bs = DOMAIN as \cup {m}
      /\ bs = [n \in DOMAIN as \cup {m} |-> bs[n]]
      /\ bs[m] = v /\ \A n \in DOMAIN as : n # m => bs[n] = as[n]
  BY DEF Assign
<1> HIDE DEF bs
<1>5. DOMAIN bs = {form[i].name : i \in 1 .. k + 1}
  BY <1>1, <1>3, <1>4
<1>6. ASSUME NEW i \in 1 .. k + 1
      PROVE  bs[form[i].name] = D(form[i].value)
  <2>1. CASE i = k + 1
    BY <2>1, <1>4
  <2>2. CASE i \in 1 .. k
    <3>1. form[i].name \in DOMAIN as /\ form[i].name # m
      BY <2>2, <1>2, <1>3
    <3>2. as[form[i].name] = D(form[i].value)
      BY <2>2, Zenon DEF DecodedFirst
    <3> QED BY <3>1, <3>2, <1>4
  <2> QED BY <1>1, <2>1, <2>2
<1>7. bs = [n \in DOMAIN bs |-> bs[n]]
  BY <1>4
<1> QED
  BY <1>5, <1>6, <1>7, Zenon DEF DecodedFirst, bs

LEMMA FindHere ==
  ASSUME data \in Seq(Tokens), NEW t, NEW from \in Nat \ {0}, NEW to \in Nat,
         from <= to, to <= Len(data), data[to] = t, \A i \in from .. to - 1 : data[i] # t
  PROVE  Find(t, from) = to
<1> DEFINE r == Find(t, from)
<1>1. IsFound(r, t, from)
  BY FindIs
<1> HIDE DEF r
<1>2. Len(data) \in Nat /\ to \in from .. Len(data)
  OBVIOUS
<1>3. r \in from .. Len(data) /\ data[r] = t /\ \A i \in from .. r - 1 : data[i] # t
  BY <1>1, <1>2 DEF IsFound
<1>4. r = to
  BY <1>2, <1>3
<1> QED BY <1>4 DEF r

LEMMA FindNowhere ==
  ASSUME data \in Seq(Tokens), NEW t, NEW from \in Nat \ {0},
         \A i \in from .. Len(data) : data[i] # t
  PROVE  Find(t, from) = 0
<1> DEFINE r == Find(t, from)
<1>1. IsFound(r, t, from)
  BY FindIs
<1> HIDE DEF r
<1>2. r = 0
  BY <1>1 DEF IsFound
<1> QED BY <1>2 DEF r

-----------------------------------------------------------------------------
(* A multipart form that lacks no token, or only its end *)

\* What does not change: what is sent.
Sending ==
  /\ content \in Contents /\ form \in Seq(Pairs) /\ Distinct(form)
  /\ damage \in {"none", "cut", "dropped"} /\ data \in Seq(Tokens)

\* The parts that lie at a are whole if nothing is damaged.
FormAt(a) ==
  /\ PartsAt(form, data, a)
  /\ damage = "none" => Len(data) = a[Len(form)] + 3

\* The tokens of a part behind the place m.
TokensAt(m, p) ==
  /\ Shows(data, m + 1, "boundary") /\ Shows(data, m + 2, "crlf")
  /\ Shows(data, m + 3, "disposition") /\ Shows(data, m + 4, ":")
  /\ Shows(data, m + 5, NameToken(p.name)) /\ Shows(data, m + 6, "crlf")
  /\ Shows(data, m + 7, "type") /\ Shows(data, m + 8, ":") /\ Shows(data, m + 9, "x")
  /\ Shows(data, m + 10, "crlf") /\ Shows(data, m + 11, "crlf")

ValueAt(m, p) ==
  /\ \A j \in 1 .. Len(p.value) : Shows(data, m + j, p.value[j])
  /\ Shows(data, m + Len(p.value) + 1, "crlf")

LEMMA PlaceIs ==
  ASSUME Sending, NEW a, FormAt(a), NEW k \in 0 .. Len(form)
  PROVE  /\ a[k] \in Nat /\ a[k] <= a[Len(form)] /\ a[Len(form)] \in Nat
         /\ damage = "none" => a[k] + 3 <= Len(data)
         /\ Shows(data, a[k] + 1, "boundary")
         /\ k = Len(form) => Shows(data, a[k] + 2, "dashes") /\ Len(data) <= a[k] + 3
<1>0. Len(form) \in Nat /\ Len(data) \in Nat
  BY DEF Sending
<1>1. a \in [0 .. Len(form) -> Nat]
  BY DEF FormAt, PartsAt
<1>2. a[k] \in Nat /\ a[Len(form)] \in Nat
  BY <1>0, <1>1
<1>3. CASE k = Len(form)
  <2>1. Partly(data, a[k], Ending) /\ Len(data) <= a[k] + 3
    BY <1>3 DEF FormAt, PartsAt
  <2>2. Len(Ending) = 3 /\ Ending[1] = "boundary" /\ Ending[2] = "dashes"
    BY DEF Ending
  <2>3. Shows(data, a[k] + 1, Ending[1]) /\ Shows(data, a[k] + 2, Ending[2])
    BY <2>1, <2>2 DEF Partly
  <2> QED
    BY <1>0, <1>2, <1>3, <2>1, <2>2, <2>3 DEF FormAt
<1>4. CASE k < Len(form)
  <2>1. k \in 0 .. Len(form) - 1 /\ k + 1 \in 1 .. Len(form)
    BY <1>0, <1>4
  <2>2. /\ a[k + 1] = a[k] + 12 + Len(form[k + 1].value) /\ a[k + 1] <= a[Len(form)]
        /\ Partly(data, a[k], PartText(form[k + 1]))
    BY <2>1 DEF FormAt, PartsAt
  <2>3. form[k + 1] \in Pairs
    BY <2>1 DEF Sending
  <2>4. PartTokens(PartText(form[k + 1]), form[k + 1])
    BY <2>3, PartTextIs
  <2> DEFINE w == PartText(form[k + 1])
             l == Len(form[k + 1].value)
  <2>5. l \in Nat
    BY <2>3, ValueType
  <2>6. Len(w) = 12 + l /\ w[1] = "boundary"
    BY <2>4 DEF PartTokens
  <2> HIDE DEF w, l
  <2>7. Shows(data, a[k] + 1, w[1])
    BY <2>2, <2>5, <2>6 DEF Partly, w
  <2>8. a[k] <= a[Len(form)]
    BY <1>2, <2>2, <2>5 DEF l
  <2> QED
    BY <1>0, <1>2, <1>4, <2>6, <2>7, <2>8 DEF FormAt
<1> QED
  BY <1>0, <1>3, <1>4

LEMMA PartIs ==
  ASSUME Sending, NEW a, FormAt(a), NEW k \in 0 .. Len(form) - 1
  PROVE  /\ form[k + 1] \in Pairs /\ a[k + 1] = a[k] + 12 + Len(form[k + 1].value)
         /\ TokensAt(a[k], form[k + 1]) /\ ValueAt(a[k] + 11, form[k + 1])
         /\ damage = "none" => a[k + 1] + 3 <= Len(data)
<1>0. Len(form) \in Nat /\ Len(data) \in Nat /\ k + 1 \in 0 .. Len(form) /\ k \in 0 .. Len(form)
      /\ k + 1 \in 1 .. Len(form)
  BY DEF Sending
<1>1. form[k + 1] \in Pairs
  BY <1>0 DEF Sending
<1>2. a[k] \in Nat /\ (damage = "none" => a[k + 1] + 3 <= Len(data))
  BY <1>0, PlaceIs
<1>3. /\ a[k + 1] = a[k] + 12 + Len(form[k + 1].value)
      /\ Partly(data, a[k], PartText(form[k + 1]))
  BY DEF FormAt, PartsAt
<1> DEFINE w == PartText(form[k + 1])
           p == form[k + 1]
           l == Len(p.value)
           m == a[k]
<1>4. l \in Nat
  BY <1>1, ValueType
<1>5. PartTokens(w, p)
  BY <1>1, PartTextIs
<1> HIDE DEF w, p, l, m
<1>6. Len(w) = 12 + l
  BY <1>5 DEF PartTokens, l
<1>7. \A j \in 1 .. 12 + l : Shows(data, m + j, w[j])
  BY <1>3, <1>6 DEF Partly, w, m
<1>8. \A j \in 1 .. 12 : j \in 1 .. 12 + l
  BY <1>4
<1>9. TokensAt(m, p)
  <2>1. /\ Shows(data, m + 1, w[1]) /\ Shows(data, m + 2, w[2]) /\ Shows(data, m + 3, w[3])
        /\ Shows(data, m + 4, w[4]) /\ Shows(data, m + 5, w[5]) /\ Shows(data, m + 6, w[6])
    BY <1>7, <1>8
  <2>2. /\ Shows(data, m + 7, w[7]) /\ Shows(data, m + 8, w[8]) /\ Shows(data, m + 9, w[9])
        /\ Shows(data, m + 10, w[10]) /\ Shows(data, m + 11, w[11])
    BY <1>7, <1>8
  <2>3. /\ w[1] = "boundary" /\ w[2] = "crlf" /\ w[3] = "disposition" /\ w[4] = ":"
        /\ w[5] = NameToken(p.name) /\ w[6] = "crlf" /\ w[7] = "type" /\ w[8] = ":"
        /\ w[9] = "x" /\ w[10] = "crlf" /\ w[11] = "crlf"
    BY <1>5, Zenon DEF PartTokens
  <2> QED BY <2>1, <2>2, <2>3, Zenon DEF TokensAt
<1>10. ValueAt(m + 11, p)
  <2>1. ASSUME NEW j \in 1 .. l PROVE Shows(data, m + 11 + j, p.value[j])
    <3>1. 11 + j \in 1 .. 12 + l /\ m + (11 + j) = m + 11 + j
      BY <1>2, <1>4 DEF m
    <3>2. w[11 + j] = p.value[j]
      BY <1>5 DEF PartTokens, l
    <3>3. Shows(data, m + (11 + j), w[11 + j])
      BY <1>7, <3>1
    <3> QED BY <3>1, <3>2, <3>3
  <2>2. Shows(data, m + 11 + l + 1, "crlf")
    <3>1. 12 + l \in 1 .. 12 + l /\ m + (12 + l) = m + 11 + l + 1
      BY <1>2, <1>4 DEF m
    <3>2. w[12 + l] = "crlf"
      BY <1>5 DEF PartTokens, l
    <3>3. Shows(data, m + (12 + l), w[12 + l])
      BY <1>7, <3>1
    <3> QED BY <3>1, <3>2, <3>3
  <2> QED BY <2>1, <2>2 DEF ValueAt, l
<1> QED
  BY <1>1, <1>2, <1>3, <1>9, <1>10 DEF m, p

\* What the parser does with the part that lies behind m, whose name is n: it
\* reads one header, then another, or what there is of one.
HeaderAt(m, n) ==
  \/ pos = m + 3 /\ param_name = ""
  \/ pos = m + 7 /\ param_name = n
  \/ pos = m + 11 /\ Len(data) = m + 10

\* The parser has the first k arguments, and is at the part behind them.
PartAfter(a, k) ==
  \/ pstate = "dispatch" /\ k = 0 /\ param_name = ""
  \/ pstate = "find_boundary_start" /\ pos = a[k] + 1 /\ param_name = ""
  \/ /\ pstate = "read_boundary_start" /\ pos = a[k] + 1 /\ param_name = ""
     /\ pos <= Len(data) /\ (k = Len(form) => Len(data) = a[k] + 1)
  \/ k < Len(form) /\ pstate = "read_header" /\ HeaderAt(a[k], form[k + 1].name)
  \/ /\ k < Len(form) /\ pstate = "read_body" /\ pos = a[k] + 12
     /\ param_name = form[k + 1].name
  \/ pstate \in {"select", "done"} /\ (damage = "none" => k = Len(form))

MultipartAfter(a, k) == DecodedFirst(args, k) /\ PartAfter(a, k)

\* The request does not change, and the arguments do not.
SameArgs == UNCHANGED <<content, form, damage, data, args>>

LEMMA SameDecoded ==
  ASSUME NEW k, DecodedFirst(args, k), SameArgs
  PROVE  DecodedFirst(args, k)'
  BY DEF DecodedFirst, SameArgs

LEMMA ReturnStep ==
  ASSUME NEW a, NEW k, MultipartAfter(a, k), SameArgs, pstate' = "select",
         damage = "none" => k = Len(form)
  PROVE  MultipartAfter(a, k)'
<1>1. DecodedFirst(args, k)'
  BY SameDecoded DEF MultipartAfter
<1>2. damage' = damage /\ form' = form
  BY DEF SameArgs
<1> QED
  BY <1>1, <1>2 DEF MultipartAfter, PartAfter

LEMMA FindBoundaryStep ==
  ASSUME Sending, NEW a, FormAt(a), NEW k \in 0 .. Len(form), MultipartAfter(a, k),
         FindBoundaryStart
  PROVE  MultipartAfter(a, k)'
<1> DEFINE m == a[k]
<1>0. pos = m + 1 /\ param_name = "" /\ pstate = "find_boundary_start"
  BY DEF FindBoundaryStart, MultipartAfter, PartAfter
<1>1. /\ m \in Nat /\ (damage = "none" => m + 3 <= Len(data))
      /\ Shows(data, m + 1, "boundary")
      /\ k = Len(form) => Shows(data, m + 2, "dashes") /\ Len(data) <= m + 3
  BY PlaceIs
<1>2. Len(data) \in Nat /\ Len(form) \in Nat /\ data \in Seq(Tokens)
  BY DEF Sending
<1>3. SameArgs
  BY DEF FindBoundaryStart, SameArgs, ReturnArgs
<1>4. k # Len(form) => Shows(data, m + 2, "crlf")
  <2> SUFFICES ASSUME k # Len(form) PROVE Shows(data, m + 2, "crlf")
    OBVIOUS
  <2>1. k \in 0 .. Len(form) - 1
    BY <1>2
  <2> QED BY <2>1, PartIs DEF TokensAt
<1> HIDE DEF m
<1>5. m + 1 \in Nat \ {0} /\ m + 1 \in Nat /\ m + 1 <= m + 1 /\ (m + 1) + 1 = m + 2
      /\ \A i \in m + 1 .. (m + 1) - 1 : data[i] # "boundary"
  BY <1>1
<1>6. CASE m + 1 > Len(data)
  <2>1. \A i \in m + 1 .. Len(data) : data[i] # "boundary"
    BY <1>1, <1>2, <1>6
  <2>2. Find("boundary", m + 1) = 0
    BY <1>2, <1>5, <2>1, FindNowhere
  <2>3. pstate' = "select"
    BY <1>0, <2>2 DEF FindBoundaryStart, ReturnArgs, Move
  <2>4. damage # "none"
    BY <1>1, <1>2, <1>6
  <2> QED
    BY <1>3, <2>3, <2>4, ReturnStep
<1>7. CASE m + 1 <= Len(data)
  <2>1. data[m + 1] = "boundary"
    BY <1>1, <1>7 DEF Shows
  <2>2. Find("boundary", m + 1) = m + 1
    BY <1>2, <1>5, <1>7, <2>1, FindHere
  <2>3. CASE At(m + 2, "dashes")
    <3>1. k = Len(form)
      BY <1>4, <2>3 DEF At, Shows
    <3>2. pstate' = "select"
      BY <1>0, <1>5, <2>2, <2>3 DEF FindBoundaryStart, ReturnArgs, Move
    <3> QED
      BY <1>3, <3>1, <3>2, ReturnStep
  <2>4. CASE ~ At(m + 2, "dashes")
    <3>0. m + 1 # 0
      BY <1>1
    <3>1. pstate' = "read_boundary_start" /\ pos' = m + 1 /\ param_name' = ""
      BY <1>0, <1>5, <2>2, <2>4, <3>0 DEF FindBoundaryStart, Move
    <3>2. k = Len(form) => Len(data) = m + 1
      BY <1>1, <1>2, <1>7, <2>4 DEF At, Shows
    <3>3. DecodedFirst(args, k)'
      BY <1>3, SameDecoded DEF MultipartAfter
    <3>4. data' = data /\ form' = form
      BY <1>3 DEF SameArgs
    <3> QED
      BY <1>7, <3>1, <3>2, <3>3, <3>4 DEF MultipartAfter, PartAfter, m
  <2> QED BY <2>3, <2>4
<1> QED
  BY <1>1, <1>2, <1>6, <1>7

LEMMA ReadBoundaryStep ==
  ASSUME Sending, NEW a, FormAt(a), NEW k \in 0 .. Len(form), MultipartAfter(a, k),
         ReadBoundaryStart
  PROVE  MultipartAfter(a, k)'
<1> DEFINE m == a[k]
<1>0. pos = m + 1 /\ param_name = "" /\ pstate = "read_boundary_start"
  BY DEF ReadBoundaryStart, MultipartAfter, PartAfter
<1>9. m + 1 <= Len(data) /\ (k = Len(form) => Len(data) = m + 1)
  BY DEF ReadBoundaryStart, MultipartAfter, PartAfter
<1>1. m \in Nat /\ (damage = "none" => m + 3 <= Len(data))
  BY PlaceIs
<1>2. Len(data) \in Nat /\ Len(form) \in Nat
  BY DEF Sending
<1>3. SameArgs
  BY DEF ReadBoundaryStart, SameArgs, ReturnArgs
<1>4. k # Len(form) => Shows(data, m + 2, "crlf")
  <2> SUFFICES ASSUME k # Len(form) PROVE Shows(data, m + 2, "crlf")
    OBVIOUS
  <2>1. k \in 0 .. Len(form) - 1
    BY <1>2
  <2> QED BY <2>1, PartIs DEF TokensAt
<1> HIDE DEF m
<1>5. pos + 1 = m + 2 /\ pos + 2 = m + 3
  <2>1. (m + 1) + 1 = m + 2 /\ (m + 1) + 2 = m + 3
    BY <1>1
  <2> QED BY <1>0, <2>1, Zenon
<1>6. EndsLine <=> At(m + 2, "crlf")
  BY <1>5 DEF EndsLine
<1>7. CASE ~ EndsLine
  <2>1. pstate' = "select"
    BY <1>7 DEF ReadBoundaryStart, ReturnArgs, Move
  <2>2. damage # "none"
    <3> SUFFICES ASSUME damage = "none" PROVE FALSE
      OBVIOUS
    <3>1. m + 2 <= Len(data) /\ k # Len(form)
      BY <1>9, <1>1, <1>2
    <3> QED BY <1>4, <1>6, <1>7, <3>1 DEF At, Shows
  <2> QED
    BY <1>3, <2>1, <2>2, ReturnStep
<1>8. CASE EndsLine
  <2>1. pstate' = "read_header" /\ pos' = m + 3 /\ param_name' = ""
    BY <1>0, <1>5, <1>8 DEF ReadBoundaryStart, Move
  <2>2. m + 2 <= Len(data)
    BY <1>6, <1>8 DEF At
  <2>3. k < Len(form)
    BY <1>9, <1>1, <1>2, <2>2
  <2>4. DecodedFirst(args, k)'
    BY <1>3, SameDecoded DEF MultipartAfter
  <2>5. data' = data /\ form' = form
    BY <1>3 DEF SameArgs
  <2>6. HeaderAt(m, form[k + 1].name)'
    BY <2>1 DEF HeaderAt, m
  <2> QED
    BY <2>1, <2>3, <2>4, <2>5, <2>6 DEF MultipartAfter, PartAfter, m
<1> QED
  BY <1>7, <1>8

LEMMA NameIs ==
  ASSUME NEW n \in Names, NEW m \in Nat, data[m] = NameToken(n)
  PROVE  NameOf(m, m + 1) = n
<1>1. m .. (m + 1) - 1 = {m}
  OBVIOUS
<1>2. \A o \in Names : (\E i \in m .. (m + 1) - 1 : data[i] = NameToken(o)) <=> o = n
  BY <1>1, ArgumentsAssumption
<1>3. \E o \in Names : \E i \in m .. (m + 1) - 1 : data[i] = NameToken(o)
  BY <1>2
<1> DEFINE c == CHOOSE o \in Names : \E i \in m .. (m + 1) - 1 : data[i] = NameToken(o)
<1>4. NameOf(m, m + 1) = c
  BY <1>3 DEF NameOf
<1>5. c \in Names /\ \E i \in m .. (m + 1) - 1 : data[i] = NameToken(c)
  BY <1>3
<1> HIDE DEF c
<1> QED
  BY <1>2, <1>4, <1>5

\* What a header does, once its colon and its end are found.
LEMMA HeaderRead ==
  ASSUME ReadPartHeader, NEW colon \in Nat \ {0}, NEW crlf \in Nat \ {0},
         Find(":", pos) = colon, Find("crlf", colon + 1) = crlf
  PROVE  /\ param_name' = IF IsDisposition(pos, colon) THEN NameOf(colon + 1, crlf)
                          ELSE param_name
         /\ At(crlf + 1, "crlf") => pstate' = "read_body" /\ pos' = crlf + 2
         /\ ~ At(crlf + 1, "crlf") => pstate' = "read_header" /\ pos' = crlf + 1
<1>1. colon # 0 /\ crlf # 0
  OBVIOUS
<1> QED
  BY <1>1 DEF ReadPartHeader, Move

LEMMA HeaderLost ==
  ASSUME ReadPartHeader, NEW colon \in Nat, Find(":", pos) = colon,
         colon # 0 => Find("crlf", colon + 1) = 0
  PROVE  pstate' = "select"
  BY DEF ReadPartHeader, ReturnArgs, Move

LEMMA ReadHeaderStep ==
  ASSUME Sending, NEW a, FormAt(a), NEW k \in 0 .. Len(form), MultipartAfter(a, k),
         ReadPartHeader
  PROVE  MultipartAfter(a, k)'
<1> DEFINE m == a[k]
           n == form[k + 1].name
<1>0. k < Len(form) /\ pstate = "read_header" /\ HeaderAt(m, n)
  BY DEF ReadPartHeader, MultipartAfter, PartAfter
<1>1. Len(data) \in Nat /\ Len(form) \in Nat /\ data \in Seq(Tokens)
  BY DEF Sending
<1>2. k \in 0 .. Len(form) - 1
  BY <1>0, <1>1
<1>3. m \in Nat
  BY PlaceIs
<1>4. TokensAt(m, form[k + 1]) /\ form[k + 1] \in Pairs
  BY <1>2, PartIs
<1>5. n \in Names
  BY <1>4, ValueType
<1>6. damage = "none" => m + 15 <= Len(data)
  <2> DEFINE l == Len(form[k + 1].value)
  <2>1. l \in Nat
    BY <1>4, ValueType
  <2>2. a[k + 1] = m + 12 + l /\ (damage = "none" => a[k + 1] + 3 <= Len(data))
    BY <1>2, PartIs
  <2> HIDE DEF l, m
  <2> QED BY <1>1, <1>3, <2>1, <2>2
<1>7. SameArgs
  BY DEF ReadPartHeader, SameArgs, ReturnArgs
<1>8. DecodedFirst(args, k)' /\ form' = form /\ data' = data
  BY <1>7, SameDecoded DEF MultipartAfter, SameArgs
<1>9. /\ Shows(data, m + 3, "disposition") /\ Shows(data, m + 4, ":")
      /\ Shows(data, m + 5, NameToken(n)) /\ Shows(data, m + 6, "crlf")
      /\ Shows(data, m + 7, "type") /\ Shows(data, m + 8, ":") /\ Shows(data, m + 9, "x")
      /\ Shows(data, m + 10, "crlf") /\ Shows(data, m + 11, "crlf")
  BY <1>4 DEF TokensAt
<1>10. NameToken(n) # "crlf"
  BY <1>5, ArgumentsAssumption
<1>11. ASSUME pstate' = "read_header", HeaderAt(m, n)'
       PROVE  MultipartAfter(a, k)'
  BY <1>0, <1>8, <1>11 DEF MultipartAfter, PartAfter, m, n
<1>12. ASSUME pstate' = "select", damage # "none"
       PROVE  MultipartAfter(a, k)'
  BY <1>7, <1>12, ReturnStep
<1> HIDE DEF m, n
<1>13. CASE pos = m + 3 /\ param_name = ""
  <2>1. CASE Len(data) < m + 4
    <3>1. \A i \in m + 3 .. Len(data) : data[i] # ":"
      BY <1>1, <1>3, <1>9, <2>1 DEF Shows
    <3>2. m + 3 \in Nat \ {0}
      BY <1>3
    <3>3. Find(":", m + 3) = 0
      BY <1>1, <3>1, <3>2, FindNowhere
    <3>4. pstate' = "select"
      BY <1>13, <3>3, HeaderLost
    <3>5. damage # "none"
      BY <1>1, <1>3, <1>6, <2>1
    <3> QED BY <1>12, <3>4, <3>5
  <2>2. CASE m + 4 <= Len(data) /\ Len(data) < m + 6
    <3>1. /\ m + 3 \in Nat \ {0} /\ m + 4 \in Nat /\ m + 3 <= m + 4 /\ m + 4 # 0
          /\ (m + 4) + 1 = m + 5 /\ m + 5 \in Nat \ {0}
      BY <1>3
    <3>2. data[m + 4] = ":" /\ \A i \in m + 3 .. (m + 4) - 1 : data[i] # ":"
      BY <1>1, <1>3, <1>9, <2>2 DEF Shows
    <3>3. \A i \in m + 5 .. Len(data) : data[i] # "crlf"
      BY <1>1, <1>3, <1>9, <1>10, <2>2 DEF Shows
    <3>4. Find(":", m + 3) = m + 4
      BY <1>1, <2>2, <3>1, <3>2, FindHere
    <3>5. Find("crlf", m + 5) = 0
      BY <1>1, <3>1, <3>3, FindNowhere
    <3>6. pstate' = "select"
      BY <1>13, <3>1, <3>4, <3>5, HeaderLost
    <3>7. damage # "none"
      BY <1>1, <1>3, <1>6, <2>2
    <3> QED BY <1>12, <3>6, <3>7
  <2>3. CASE m + 6 <= Len(data)
    <3>1. /\ m + 3 \in Nat \ {0} /\ m + 4 \in Nat /\ m + 3 <= m + 4 /\ m + 4 \in Nat \ {0}
          /\ (m + 4) + 1 = m + 5 /\ m + 5 \in Nat \ {0} /\ m + 6 \in Nat \ {0}
          /\ m + 6 \in Nat /\ m + 5 <= m + 6 /\ (m + 6) + 1 = m + 7 /\ m + 4 <= Len(data)
          /\ m + 5 \in Nat /\ (m + 5) + 1 = m + 6
      BY <1>1, <1>3, <2>3
    <3>2. data[m + 4] = ":" /\ \A i \in m + 3 .. (m + 4) - 1 : data[i] # ":"
      BY <1>1, <1>3, <1>9, <2>3 DEF Shows
    <3>3. data[m + 6] = "crlf" /\ \A i \in m + 5 .. (m + 6) - 1 : data[i] # "crlf"
      BY <1>1, <1>3, <1>9, <1>10, <2>3 DEF Shows
    <3>4. Find(":", m + 3) = m + 4
      BY <1>1, <3>1, <3>2, FindHere
    <3>5. Find("crlf", m + 5) = m + 6
      BY <1>1, <2>3, <3>1, <3>3, FindHere
    <3>6. IsDisposition(m + 3, m + 4)
      <4>1. m + 3 .. (m + 4) - 1 = {m + 3} /\ data[m + 3] = "disposition"
        BY <1>1, <1>3, <1>9, <2>3 DEF Shows
      <4> QED BY <4>1 DEF IsDisposition
    <3>7. NameOf(m + 5, m + 6) = n
      <4>1. data[m + 5] = NameToken(n)
        BY <1>1, <1>3, <1>9, <2>3 DEF Shows
      <4> QED BY <1>5, <3>1, <4>1, NameIs
    <3>8. ~ At(m + 7, "crlf")
      BY <1>1, <1>3, <1>9 DEF At, Shows
    <3>9. /\ param_name' = IF IsDisposition(pos, m + 4) THEN NameOf(m + 5, m + 6) ELSE param_name
          /\ ~ At(m + 7, "crlf") => pstate' = "read_header" /\ pos' = m + 7
      BY <1>13, <3>1, <3>4, <3>5, HeaderRead
    <3>10. param_name' = n /\ pstate' = "read_header" /\ pos' = m + 7
      BY <1>13, <3>6, <3>7, <3>8, <3>9
    <3>11. HeaderAt(m, n)'
      <4>1. n' = n
        BY <1>8 DEF n
      <4> QED BY <3>10, <4>1 DEF HeaderAt
    <3> QED BY <1>11, <3>10, <3>11
  <2> QED BY <1>1, <1>3, <2>1, <2>2, <2>3
<1>14. CASE pos = m + 7 /\ param_name = n
  <2>1. CASE Len(data) < m + 8
    <3>1. \A i \in m + 7 .. Len(data) : data[i] # ":"
      BY <1>1, <1>3, <1>9, <2>1 DEF Shows
    <3>2. m + 7 \in Nat \ {0}
      BY <1>3
    <3>3. Find(":", m + 7) = 0
      BY <1>1, <3>1, <3>2, FindNowhere
    <3>4. pstate' = "select"
      BY <1>14, <3>3, HeaderLost
    <3>5. damage # "none"
      BY <1>1, <1>3, <1>6, <2>1
    <3> QED BY <1>12, <3>4, <3>5
  <2>2. CASE m + 8 <= Len(data) /\ Len(data) < m + 10
    <3>1. /\ m + 7 \in Nat \ {0} /\ m + 8 \in Nat /\ m + 7 <= m + 8 /\ m + 8 # 0
          /\ (m + 8) + 1 = m + 9 /\ m + 9 \in Nat \ {0}
      BY <1>3
    <3>2. data[m + 8] = ":" /\ \A i \in m + 7 .. (m + 8) - 1 : data[i] # ":"
      BY <1>1, <1>3, <1>9, <2>2 DEF Shows
    <3>3. \A i \in m + 9 .. Len(data) : data[i] # "crlf"
      BY <1>1, <1>3, <1>9, <2>2 DEF Shows
    <3>4. Find(":", m + 7) = m + 8
      BY <1>1, <2>2, <3>1, <3>2, FindHere
    <3>5. Find("crlf", m + 9) = 0
      BY <1>1, <3>1, <3>3, FindNowhere
    <3>6. pstate' = "select"
      BY <1>14, <3>1, <3>4, <3>5, HeaderLost
    <3>7. damage # "none"
      BY <1>1, <1>3, <1>6, <2>2
    <3> QED BY <1>12, <3>6, <3>7
  <2>3. CASE m + 10 <= Len(data)
    <3>1. /\ m + 7 \in Nat \ {0} /\ m + 8 \in Nat /\ m + 7 <= m + 8 /\ m + 8 \in Nat \ {0}
          /\ (m + 8) + 1 = m + 9 /\ m + 9 \in Nat \ {0} /\ m + 10 \in Nat \ {0}
          /\ m + 10 \in Nat /\ m + 9 <= m + 10 /\ m + 8 <= Len(data)
          /\ (m + 10) + 1 = m + 11 /\ (m + 10) + 2 = m + 12
      BY <1>1, <1>3, <2>3
    <3>2. data[m + 8] = ":" /\ \A i \in m + 7 .. (m + 8) - 1 : data[i] # ":"
      BY <1>1, <1>3, <1>9, <2>3 DEF Shows
    <3>3. data[m + 10] = "crlf" /\ \A i \in m + 9 .. (m + 10) - 1 : data[i] # "crlf"
      BY <1>1, <1>3, <1>9, <2>3 DEF Shows
    <3>4. Find(":", m + 7) = m + 8
      BY <1>1, <3>1, <3>2, FindHere
    <3>5. Find("crlf", m + 9) = m + 10
      BY <1>1, <2>3, <3>1, <3>3, FindHere
    <3>6. ~ IsDisposition(m + 7, m + 8)
      <4>1. m + 7 .. (m + 8) - 1 = {m + 7} /\ data[m + 7] = "type"
        BY <1>1, <1>3, <1>9, <2>3 DEF Shows
      <4> QED BY <4>1 DEF IsDisposition
    <3>7. /\ param_name' = IF IsDisposition(pos, m + 8) THEN NameOf(m + 9, m + 10) ELSE param_name
          /\ At(m + 11, "crlf") => pstate' = "read_body" /\ pos' = m + 12
          /\ ~ At(m + 11, "crlf") => pstate' = "read_header" /\ pos' = m + 11
      BY <1>14, <3>1, <3>4, <3>5, HeaderRead
    <3>8. param_name' = n
      BY <1>14, <3>6, <3>7
    <3>9. CASE At(m + 11, "crlf")
      <4>1. pstate' = "read_body" /\ pos' = m + 12
        BY <3>7, <3>9
      <4> QED
        BY <1>0, <1>8, <3>8, <4>1 DEF MultipartAfter, PartAfter, m, n
    <3>10. CASE ~ At(m + 11, "crlf")
      <4>1. pstate' = "read_header" /\ pos' = m + 11
        BY <3>7, <3>10
      <4>2. Len(data) = m + 10
        BY <1>1, <1>3, <1>9, <2>3, <3>10 DEF At, Shows
      <4>3. HeaderAt(m, n)'
        BY <1>8, <4>1, <4>2 DEF HeaderAt
      <4> QED BY <1>11, <4>1, <4>3
    <3> QED BY <3>9, <3>10
  <2> QED BY <1>1, <1>3, <2>1, <2>2, <2>3
<1>15. CASE pos = m + 11 /\ Len(data) = m + 10
  <2>1. \A i \in m + 11 .. Len(data) : data[i] # ":"
    BY <1>1, <1>3, <1>15
  <2>2. m + 11 \in Nat \ {0}
    BY <1>3
  <2>3. Find(":", m + 11) = 0
    BY <1>1, <2>1, <2>2, FindNowhere
  <2>4. pstate' = "select"
    BY <1>15, <2>3, HeaderLost
  <2>5. damage # "none"
    BY <1>1, <1>3, <1>6, <1>15
  <2> QED BY <1>12, <2>4, <2>5
<1> QED
  BY <1>0, <1>13, <1>14, <1>15 DEF HeaderAt

LEMMA BodyIs ==
  ASSUME data \in Seq(Tokens), NEW p \in Pairs, NEW m \in Nat, pos = m + 1,
         ValueAt(m, p), m + 2 + Len(p.value) <= Len(data)
  PROVE  MessageBody(m + 2 + Len(p.value)) = p.value
<1> DEFINE v == p.value
           l == Len(v)
           b == SubSeq(data, m + 1, m + l)
<1>1. v \in Seq(Tokens) /\ l \in Nat
  BY ValueType
<1>2. \A j \in 1 .. l : Shows(data, m + j, v[j])
  BY DEF ValueAt
<1>3. Len(data) \in Nat
  OBVIOUS
<1> HIDE DEF v, b
<1>4. ~ ((m + 2 + l) - 1 < m + 1) /\ (m + 2 + l) - 2 = m + l
  BY <1>1
<1>5. MessageBody(m + 2 + l) = b
  BY <1>4 DEF MessageBody, b
<1>6. \A i \in m + 1 .. m + l : data[i] \in Tokens
  <2>1. m + 2 + l <= Len(data)
    BY DEF v
  <2>2. \A i \in m + 1 .. m + l : i \in 1 .. Len(data)
    BY <1>1, <1>3, <2>1
  <2> QED BY <2>2
<1>7. b \in Seq(Tokens) /\ Len(b) = l /\ \A j \in 1 .. l : b[j] = data[m + j]
  <2>1. m + 1 \in Int /\ m + l \in Int
    BY <1>1
  <2>2. b \in Seq(Tokens)
    BY <1>6, <2>1, SubSeqProperties DEF b
  <2>3. Len(b) = IF m + 1 <= m + l THEN (m + l) - (m + 1) + 1 ELSE 0
    BY <1>6, <2>1, SubSeqProperties DEF b
  <2>4. \A j \in 1 .. (m + l) - (m + 1) + 1 : b[j] = data[(m + 1) + j - 1]
    BY <1>6, <2>1, SubSeqProperties DEF b
  <2>5. (m + l) - (m + 1) + 1 = l /\ \A j \in 1 .. l : (m + 1) + j - 1 = m + j
    BY <1>1
  <2> QED BY <1>1, <2>2, <2>3, <2>4, <2>5
<1>8. \A j \in 1 .. l : b[j] = v[j]
  BY <1>1, <1>2, <1>3, <1>7 DEF Shows, v
<1>9. b = v
  BY <1>1, <1>7, <1>8, SeqEqual
<1> QED
  BY <1>5, <1>9 DEF v

LEMMA ReadBodyStep ==
  ASSUME Sending, content = "multipart", NEW a, FormAt(a), NEW k \in 0 .. Len(form),
         MultipartAfter(a, k), ReadPartBody
  PROVE  \E j \in 0 .. Len(form) : MultipartAfter(a, j)'
<1> DEFINE p == form[k + 1]
           l == Len(p.value)
           m == a[k] + 11
<1>0. k < Len(form) /\ pos = a[k] + 12 /\ param_name = p.name
  BY DEF ReadPartBody, MultipartAfter, PartAfter
<1>1. Len(data) \in Nat /\ Len(form) \in Nat /\ data \in Seq(Tokens)
  BY DEF Sending
<1>2. k \in 0 .. Len(form) - 1 /\ k + 1 \in 0 .. Len(form)
  BY <1>0, <1>1
<1>3. a[k] \in Nat /\ m \in Nat /\ m + 1 = a[k] + 12
  BY PlaceIs
<1>4. p \in Pairs /\ ValueAt(m, p) /\ a[k + 1] = a[k] + 12 + l
      /\ (damage = "none" => a[k + 1] + 3 <= Len(data))
  BY <1>2, PartIs
<1>5. l \in Nat /\ \A j \in 1 .. l : p.value[j] \in Characters
  BY <1>4, ValueType
<1>6. Shows(data, a[k + 1] + 1, "boundary")
  BY <1>2, PlaceIs
<1>7. \A j \in 1 .. l : Shows(data, m + j, p.value[j]) /\ p.value[j] # "boundary"
  BY <1>4, <1>5, ArgumentsAssumption DEF ValueAt
<1>8. Shows(data, m + l + 1, "crlf")
  BY <1>4 DEF ValueAt
<1>9. a[k + 1] = m + l + 1
  <2> HIDE DEF l
  <2> QED BY <1>3, <1>4, <1>5
<1>10. UNCHANGED <<content, form, damage, data>>
  BY DEF ReadPartBody
<1> HIDE DEF l, m
<1>11. pos = m + 1 /\ m + 1 \in Nat \ {0} /\ m + 1 \in Nat /\ m + 2 + l \in Nat /\ m + 2 + l # 0
       /\ (m + l + 1) + 1 = m + 2 + l /\ (m + 2 + l) - 1 = m + l + 1 /\ m + 1 <= m + 2 + l
  BY <1>0, <1>3, <1>5
<1>12. \A i \in m + 1 .. m + l + 1 : i <= Len(data) => data[i] # "boundary"
  <2> SUFFICES ASSUME NEW i \in m + 1 .. m + l + 1, i <= Len(data) PROVE data[i] # "boundary"
    OBVIOUS
  <2>1. CASE i = m + l + 1
    BY <1>8, <2>1 DEF Shows
  <2>2. CASE i # m + l + 1
    <3>1. i - m \in 1 .. l /\ m + (i - m) = i
      BY <1>3, <1>5, <2>2
    <3>2. Shows(data, m + (i - m), p.value[i - m]) /\ p.value[i - m] # "boundary"
      BY <1>7, <3>1
    <3> QED BY <3>1, <3>2 DEF Shows
  <2> QED BY <2>1, <2>2
<1>13. CASE Len(data) < m + 2 + l
  <2>1. \A i \in m + 1 .. Len(data) : data[i] # "boundary"
    BY <1>1, <1>3, <1>5, <1>12, <1>13
  <2>2. Find("boundary", m + 1) = 0
    BY <1>1, <1>11, <2>1, FindNowhere
  <2>3. pstate' = "select" /\ SameArgs
    BY <1>11, <2>2 DEF ReadPartBody, DropRest, ReturnArgs, Move, SameArgs
  <2>4. damage # "none"
    BY <1>1, <1>3, <1>4, <1>5, <1>9, <1>13
  <2> QED BY <2>3, <2>4, ReturnStep
<1>14. CASE m + 2 + l <= Len(data)
  <2>1. data[m + 2 + l] = "boundary" /\ data[m + l + 1] = "crlf"
    BY <1>1, <1>3, <1>5, <1>6, <1>8, <1>9, <1>11, <1>14 DEF Shows
  <2>2. \A i \in m + 1 .. (m + 2 + l) - 1 : data[i] # "boundary"
    BY <1>1, <1>3, <1>5, <1>11, <1>12, <1>14
  <2>3. Find("boundary", m + 1) = m + 2 + l
    BY <1>1, <1>11, <1>14, <2>1, <2>2, FindHere
  <2>4. At((m + 2 + l) - 1, "crlf")
    BY <1>1, <1>3, <1>5, <1>11, <1>14, <2>1 DEF At
  <2>5. MessageBody(m + 2 + l) = p.value
    BY <1>1, <1>3, <1>4, <1>11, <1>14, BodyIs DEF l
  <2>6. /\ args' = Assign(args, p.name, p.value)
        /\ pstate' = "find_boundary_start" /\ pos' = m + 2 + l /\ param_name' = ""
    BY <1>0, <1>11, <2>3, <2>4, <2>5 DEF ReadPartBody, Move, AfterBody
  <2>7. DecodedFirst(args', k + 1)
    <3>1. form \in Seq(Pairs) /\ Distinct(form)
      BY DEF Sending
    <3>2. DecodedFirst(args, k)
      BY DEF MultipartAfter
    <3> QED BY <1>2, <2>6, <3>1, <3>2, DecodedNext
  <2>8. DecodedFirst(args, k + 1)'
    BY <1>10, <2>7 DEF DecodedFirst
  <2>9. pos' = a[k + 1] + 1
    BY <1>9, <1>11, <2>6
  <2>10. MultipartAfter(a, k + 1)'
    BY <2>6, <2>8, <2>9 DEF MultipartAfter, PartAfter
  <2> QED BY <1>2, <2>10
<1> QED
  BY <1>1, <1>3, <1>5, <1>13, <1>14

LEMMA MultipartStep ==
  ASSUME Sending, content = "multipart", NEW a, FormAt(a), NEW k \in 0 .. Len(form),
         MultipartAfter(a, k), ANext
  PROVE  \E j \in 0 .. Len(form) : MultipartAfter(a, j)'
<1>1. CASE Dispatch
  <2>1. k = 0 /\ param_name = "" /\ SameArgs
    BY <1>1 DEF Dispatch, Finish, SameArgs, MultipartAfter, PartAfter
  <2>2. a[0] = 0 /\ (damage = "none" => data # <<>>)
    <3>1. a[0] = 0
      BY DEF FormAt, PartsAt
    <3>2. a[k] \in Nat /\ (damage = "none" => a[k] + 3 <= Len(data))
      BY PlaceIs
    <3>3. a[k] = 0
      BY <2>1, <3>1
    <3>4. damage = "none" => 0 + 3 <= Len(data)
      BY <3>2, <3>3
    <3>5. Len(<<>>) = 0
      OBVIOUS
    <3> QED BY <3>1, <3>4, <3>5
  <2>3. pstate' = (IF data = <<>> THEN "select" ELSE "find_boundary_start")
        /\ pos' = 1 /\ param_name' = param_name
    BY <1>1 DEF Dispatch, Move
  <2>4. CASE data = <<>>
    BY <2>1, <2>2, <2>3, <2>4, ReturnStep
  <2>5. CASE data # <<>>
    <3>1. DecodedFirst(args, k)'
      BY <2>1, SameDecoded DEF MultipartAfter
    <3>2. pstate' = "find_boundary_start" /\ pos' = a[k] + 1 /\ param_name' = ""
      <4>1. 0 + 1 = 1
        OBVIOUS
      <4> QED BY <2>1, <2>2, <2>3, <2>5, <4>1
    <3> QED
      BY <3>1, <3>2 DEF MultipartAfter, PartAfter
  <2> QED BY <2>4, <2>5
<1>2. CASE SelectOperation
  <2>1. pstate = "select" /\ pstate' = "done" /\ SameArgs
    BY <1>2 DEF SelectOperation, Finish, SameArgs
  <2>2. DecodedFirst(args, k)'
    BY <2>1, SameDecoded DEF MultipartAfter
  <2> QED
    BY <2>1, <2>2 DEF MultipartAfter, PartAfter, SameArgs
<1>3. CASE SplitToken
  BY <1>3 DEF SplitToken, MultipartAfter, PartAfter
<1>4. CASE FindBoundaryStart
  BY <1>4, FindBoundaryStep
<1>5. CASE ReadBoundaryStart
  BY <1>5, ReadBoundaryStep
<1>6. CASE ReadPartHeader
  BY <1>6, ReadHeaderStep
<1>7. CASE ReadPartBody
  BY <1>7, ReadBodyStep
<1> QED
  BY <1>1, <1>2, <1>3, <1>4, <1>5, <1>6, <1>7 DEF ANext

-----------------------------------------------------------------------------
(* What is URL-encoded *)

LEMMA EscapedIs ==
  ASSUME NEW c \in Characters, NEW plus \in BOOLEAN
  PROVE  /\ Escaped(c, plus) \notin {"&", "="}
         /\ PlusIsSpace(Unescape(Escaped(c, plus))) = PlusIsSpace(c)
<1>1. \A e \in Characters : Escape(e) # "x" /\ Escape(e) # "+" /\ Escape(e) # "&" /\ Escape(e) # "="
  BY ArgumentsAssumption
<1>2. CASE c = "x"
  <2>1. Escaped(c, plus) = "x" /\ Unescape("x") = "x"
    BY <1>1, <1>2 DEF Escaped, Unescape
  <2> QED BY <1>2, <2>1
<1>3. CASE c = " " /\ plus
  <2>1. Escaped(c, plus) = "+" /\ Unescape("+") = "+"
    BY <1>1, <1>3 DEF Escaped, Unescape
  <2> QED BY <1>3, <2>1 DEF PlusIsSpace
<1>4. CASE c # "x" /\ ~ (c = " " /\ plus)
  <2>1. Escaped(c, plus) = Escape(c)
    BY <1>4 DEF Escaped
  <2> DEFINE d == CHOOSE e \in Characters : Escape(c) = Escape(e)
  <2>2. Unescape(Escape(c)) = d
    BY DEF Unescape
  <2>3. d \in Characters /\ Escape(c) = Escape(d)
    OBVIOUS
  <2>4. d = c
    BY <2>3, ArgumentsAssumption
  <2> QED BY <1>1, <2>1, <2>2, <2>4
<1> QED BY <1>2, <1>3, <1>4

\* The text b is a name, the sign and an encoded value.
EncodedPair(b, p, plus) ==
  /\ b \in Seq(Tokens) /\ Len(b) = 2 + Len(p.value) /\ b[1] = p.name /\ b[2] = "="
  /\ \A j \in 1 .. Len(p.value) : b[2 + j] = Escaped(p.value[j], plus)

LEMMA AddTokenIs ==
  ASSUME NEW p \in Pairs, NEW plus \in BOOLEAN, NEW b, EncodedPair(b, p, plus), NEW as
  PROVE  AddToken(as, b) =
           Assign(as, p.name, [j \in DOMAIN p.value |-> PlusIsSpace(p.value[j])])
<1> DEFINE v == p.value
           l == Len(v)
           equals == {i \in DOMAIN b : b[i] = "="}
           s == SubSeq(b, 3, Len(b))
<1>1. /\ v \in Seq(Characters) /\ l \in Nat /\ DOMAIN v = 1 .. l
      /\ \A j \in 1 .. l : v[j] \in Characters
  BY ValueType
<1>2. b \in Seq(Tokens) /\ Len(b) = 2 + l /\ b[1] = p.name /\ b[2] = "="
      /\ \A j \in 1 .. l : b[2 + j] = Escaped(v[j], plus)
  BY DEF EncodedPair
<1>3. p.name # "="
  BY ValueType, ArgumentsAssumption
<1> HIDE DEF v
<1>4. DOMAIN b = 1 .. 2 + l
  BY <1>2
<1>5. \A i \in 1 .. 2 + l : i # 2 => b[i] # "="
  <2> SUFFICES ASSUME NEW i \in 1 .. 2 + l, i # 2 PROVE b[i] # "="
    OBVIOUS
  <2>1. CASE i = 1
    BY <1>2, <1>3, <2>1
  <2>2. CASE i # 1
    <3>1. i - 2 \in 1 .. l /\ 2 + (i - 2) = i
      BY <1>1, <2>2
    <3>2. b[2 + (i - 2)] = Escaped(v[i - 2], plus) /\ v[i - 2] \in Characters
      BY <1>1, <1>2, <3>1
    <3> QED BY <3>1, <3>2, EscapedIs
  <2> QED BY <2>1, <2>2
<1>6. equals = {2}
  BY <1>1, <1>2, <1>4, <1>5
<1>7. Cardinality(equals) = 1 /\ equals # {} /\ (CHOOSE i \in equals : TRUE) = 2
  BY <1>6, FS_Singleton
<1>8. KeyOf(SubSeq(b, 1, 2 - 1)) = p.name
  <2>1. \A i \in 1 .. 1 : b[i] \in Tokens
    BY <1>1, <1>2
  <2>2. Len(SubSeq(b, 1, 1)) = 1 /\ SubSeq(b, 1, 1)[1] = b[1]
    BY <2>1
  <2> QED BY <1>2, <2>2 DEF KeyOf
<1>9. DecodeValue(SubSeq(b, 2 + 1, Len(b))) = [j \in DOMAIN v |-> PlusIsSpace(v[j])]
  <2>1. DOMAIN s = 1 .. l /\ \A j \in 1 .. l : s[j] = b[2 + j]
    <3>1. s \in Seq(Tokens) /\ Len(s) = l
      BY <1>1, <1>2
    <3>2. \A j \in 1 .. l : s[j] = b[2 + j]
      BY <1>1, <1>2
    <3> QED BY <3>1, <3>2
  <2>2. \A j \in 1 .. l : PlusIsSpace(Unescape(s[j])) = PlusIsSpace(v[j])
    BY <1>1, <1>2, <2>1, EscapedIs
  <2>3. SubSeq(b, 2 + 1, Len(b)) = s
    OBVIOUS
  <2> HIDE DEF s
  <2>4. DecodeValue(s) = [j \in 1 .. l |-> PlusIsSpace(v[j])]
    BY <2>1, <2>2 DEF DecodeValue
  <2> QED BY <1>1, <2>3, <2>4
<1> HIDE DEF equals
<1>10. AddToken(as, b) = Assign(as, KeyOf(SubSeq(b, 1, 2 - 1)), DecodeValue(SubSeq(b, 2 + 1, Len(b))))
  BY <1>7 DEF AddToken, equals
<1> QED
  BY <1>8, <1>9, <1>10 DEF v

\* Where a pair is.
LEMMA PairIs ==
  ASSUME Sending, NEW a, NEW plus \in BOOLEAN, PairsAt(form, data, a, plus),
         NEW k \in 0 .. Len(form) - 1
  PROVE  /\ form[k + 1] \in Pairs /\ a[k] \in Nat /\ Sep(k) \in Nat
         /\ a[k + 1] = a[k] + Sep(k) + 2 + Len(form[k + 1].value) /\ a[k + 1] <= Len(data)
         /\ k # 0 => data[a[k] + 1] = "&"
         /\ data[a[k] + Sep(k) + 1] = form[k + 1].name /\ data[a[k] + Sep(k) + 2] = "="
         /\ \A j \in 1 .. Len(form[k + 1].value) :
              data[a[k] + Sep(k) + 2 + j] = Escaped(form[k + 1].value[j], plus)
<1> DEFINE p == form[k + 1]
           l == Len(p.value)
           w == PairText(form, k + 1, plus)
           m == a[k]
           s == Sep(k)
<1>0. Len(form) \in Nat /\ k + 1 \in 1 .. Len(form) /\ (k + 1) - 1 = k /\ k \in 0 .. Len(form)
      /\ form \in Seq(Pairs)
  BY DEF Sending
<1>1. p \in Pairs
  BY <1>0
<1>2. a \in [0 .. Len(form) -> Nat]
  BY DEF PairsAt
<1>3. m \in Nat /\ s \in Nat
  BY <1>0, <1>2 DEF Sep
<1>4. l \in Nat
  BY <1>1, ValueType
<1>5. PairTokens(w, k, p, plus)
  <2>1. PairTokens(w, (k + 1) - 1, p, plus)
    BY <1>0, PairTextIs
  <2> QED BY <1>0, <2>1
<1>6. a[k + 1] = m + s + 2 + l /\ Lies(data, m, w)
  BY DEF PairsAt
<1> HIDE DEF p, l, w, m, s
<1>7. Len(w) = s + 2 + l /\ (k # 0 => w[1] = "&") /\ w[s + 1] = p.name /\ w[s + 2] = "="
      /\ \A j \in 1 .. l : w[s + 2 + j] = Escaped(p.value[j], plus)
  BY <1>5 DEF PairTokens, l, s
<1>8. m + (s + 2 + l) <= Len(data) /\ \A j \in 1 .. s + 2 + l : data[m + j] = w[j]
  BY <1>6, <1>7 DEF Lies
<1>9. k # 0 => data[m + 1] = "&"
  <2>1. 1 \in 1 .. s + 2 + l
    BY <1>3, <1>4
  <2> QED BY <1>7, <1>8, <2>1
<1>10. data[m + s + 1] = p.name /\ data[m + s + 2] = "="
  <2>1. s + 1 \in 1 .. s + 2 + l /\ s + 2 \in 1 .. s + 2 + l
        /\ m + (s + 1) = m + s + 1 /\ m + (s + 2) = m + s + 2
    BY <1>3, <1>4
  <2>2. data[m + (s + 1)] = w[s + 1] /\ data[m + (s + 2)] = w[s + 2]
    BY <1>8, <2>1
  <2> QED BY <1>7, <2>1, <2>2
<1>11. ASSUME NEW j \in 1 .. l PROVE data[m + s + 2 + j] = Escaped(p.value[j], plus)
  <2>1. s + 2 + j \in 1 .. s + 2 + l /\ m + (s + 2 + j) = m + s + 2 + j
    BY <1>3, <1>4
  <2>2. data[m + (s + 2 + j)] = w[s + 2 + j]
    BY <1>8, <2>1
  <2> QED BY <1>7, <2>1, <2>2
<1>12. a[k + 1] <= Len(data)
  BY <1>3, <1>4, <1>6, <1>8
<1> QED
  BY <1>1, <1>3, <1>6, <1>9, <1>10, <1>11, <1>12 DEF p, l, m, s

\* The list has the first k arguments, and the loop is at the pair behind them.
PairAfter(a, k) ==
  \/ pstate = "dispatch" /\ k = 0
  \/ k < Len(form) /\ pstate = "split" /\ pos = a[k] + Sep(k) + 1
  \/ pstate = "select" /\ k = Len(form)
  \/ pstate = "done" /\ (outcome = "handler" => k = Len(form))

UrlAfter(a, k) == DecodedFirst(args, k) /\ PairAfter(a, k)

LEMMA TokenIs ==
  ASSUME Sending, NEW a, NEW plus \in BOOLEAN, PairsAt(form, data, a, plus),
         NEW k \in 0 .. Len(form) - 1
  PROVE  EncodedPair(SubSeq(data, a[k] + Sep(k) + 1, a[k + 1]), form[k + 1], plus)
<1> DEFINE p == form[k + 1]
           l == Len(p.value)
           m == a[k] + Sep(k)
           e == a[k + 1]
           b == SubSeq(data, m + 1, e)
<1>1. /\ p \in Pairs /\ a[k] \in Nat /\ Sep(k) \in Nat
      /\ e = m + 2 + l /\ e <= Len(data)
      /\ data[m + 1] = p.name /\ data[m + 2] = "="
      /\ \A j \in 1 .. l : data[m + 2 + j] = Escaped(p.value[j], plus)
  BY PairIs
<1>2. Len(data) \in Nat /\ data \in Seq(Tokens) /\ m \in Nat
  <2>1. data \in Seq(Tokens)
    BY DEF Sending
  <2>2. a[k] \in Nat /\ Sep(k) \in Nat
    BY <1>1, Zenon
  <2> QED BY <2>1, <2>2
<1>3. l \in Nat
  BY <1>1, ValueType
<1> HIDE DEF p, l, m, e, b
<1>4. \A i \in m + 1 .. e : data[i] \in Tokens
  BY <1>1, <1>2, <1>3
<1>5. m + 1 \in Int /\ e \in Int /\ e - (m + 1) + 1 = 2 + l /\ m + 1 <= e
  BY <1>1, <1>2, <1>3
<1>6. b \in Seq(Tokens) /\ Len(b) = 2 + l /\ \A i \in 1 .. 2 + l : b[i] = data[m + i]
  <2>1. b \in Seq(Tokens)
    BY <1>4, <1>5, SubSeqProperties DEF b
  <2>2. Len(b) = IF m + 1 <= e THEN e - (m + 1) + 1 ELSE 0
    BY <1>4, <1>5, SubSeqProperties DEF b
  <2>3. \A i \in 1 .. e - (m + 1) + 1 : b[i] = data[(m + 1) + i - 1]
    BY <1>4, <1>5, SubSeqProperties DEF b
  <2>4. \A i \in 1 .. 2 + l : (m + 1) + i - 1 = m + i
    BY <1>2, <1>3
  <2> QED BY <1>5, <2>1, <2>2, <2>3, <2>4
<1>7. b[1] = p.name /\ b[2] = "="
  <2>1. 1 \in 1 .. 2 + l /\ 2 \in 1 .. 2 + l
    BY <1>3
  <2> QED BY <1>1, <1>6, <2>1
<1>8. ASSUME NEW j \in 1 .. l PROVE b[2 + j] = Escaped(p.value[j], plus)
  <2>1. 2 + j \in 1 .. 2 + l /\ m + (2 + j) = m + 2 + j
    BY <1>2, <1>3
  <2>2. b[2 + j] = data[m + (2 + j)]
    BY <1>6, <2>1
  <2> QED BY <1>1, <2>1, <2>2
<1> QED
  BY <1>6, <1>7, <1>8 DEF EncodedPair, p, l, m, e, b

LEMMA SplitStep ==
  ASSUME Sending, content # "multipart", NEW a, NEW plus \in BOOLEAN,
         PairsAt(form, data, a, plus), NEW k \in 0 .. Len(form), UrlAfter(a, k), SplitToken
  PROVE  \E j \in 0 .. Len(form) : UrlAfter(a, j)'
<1> DEFINE p == form[k + 1]
           l == Len(p.value)
           m == a[k] + Sep(k)
           e == a[k + 1]
           b == SubSeq(data, m + 1, e)
           v == [j \in DOMAIN p.value |-> PlusIsSpace(p.value[j])]
<1>0. k < Len(form) /\ pos = m + 1 /\ pstate = "split"
  BY DEF SplitToken, UrlAfter, PairAfter
<1>1. Len(data) \in Nat /\ Len(form) \in Nat /\ data \in Seq(Tokens) /\ form \in Seq(Pairs)
  BY DEF Sending
<1>2. k \in 0 .. Len(form) - 1 /\ k + 1 \in 0 .. Len(form)
  BY <1>0, <1>1
<1>3. /\ p \in Pairs /\ a[k] \in Nat /\ Sep(k) \in Nat
      /\ e = m + 2 + l /\ e <= Len(data)
      /\ data[m + 1] = p.name /\ data[m + 2] = "="
      /\ \A j \in 1 .. l : data[m + 2 + j] = Escaped(p.value[j], plus)
  BY <1>2, PairIs
<1>4. /\ l \in Nat /\ m \in Nat /\ p.name # "&"
      /\ \A j \in 1 .. l : p.value[j] \in Characters
  <2>1. p.name \in Names /\ l \in Nat /\ \A j \in 1 .. l : p.value[j] \in Characters
    BY <1>3, ValueType
  <2>2. p.name # "&"
    BY <2>1, ArgumentsAssumption
  <2>3. m \in Nat
    <3>1. a[k] \in Nat /\ Sep(k) \in Nat
      BY <1>3, Zenon
    <3> QED BY <3>1
  <2> QED BY <2>1, <2>2, <2>3
<1>5. EncodedPair(b, p, plus)
  BY <1>2, TokenIs
<1>6. AddToken(args, b) = Assign(args, p.name, v)
  BY <1>3, <1>5, AddTokenIs
<1>7. DecodedFirst(AddToken(args, b), k + 1)
  <2>1. DecodedFirst(args, k) /\ Distinct(form)
    BY DEF UrlAfter, Sending
  <2> QED BY <1>1, <1>2, <1>6, <2>1, DecodedNext
<1>8. ASSUME args' = AddToken(args, b) PROVE DecodedFirst(args, k + 1)'
  <2>1. form' = form /\ content' = content
    BY DEF SplitToken
  <2> HIDE DEF b
  <2> QED BY <1>7, <1>8, <2>1 DEF DecodedFirst
<1>9. /\ k + 1 # Len(form) => data[e + 1] = "&" /\ e + 1 <= Len(data) /\ Sep(k + 1) = 1
      /\ k + 1 = Len(form) => e = Len(data)
  <2>1. CASE k + 1 = Len(form)
    BY <2>1 DEF PairsAt
  <2>2. CASE k + 1 # Len(form)
    <3>1. k + 1 \in 0 .. Len(form) - 1 /\ k + 1 # 0
      BY <1>1, <1>2, <2>2
    <3>2. data[e + 1] = "&" /\ e \in Nat /\ Sep(k + 1) = 1
      BY <3>1, PairIs DEF Sep
    <3>3. /\ form[(k + 1) + 1] \in Pairs /\ a[(k + 1) + 1] <= Len(data)
          /\ a[(k + 1) + 1] = e + Sep(k + 1) + 2 + Len(form[(k + 1) + 1].value)
      BY <3>1, PairIs
    <3> DEFINE n == Len(form[(k + 1) + 1].value)
    <3>4. n \in Nat
      BY <3>3, ValueType
    <3> HIDE DEF n, e
    <3>5. e + 1 <= Len(data)
      BY <1>1, <3>2, <3>3, <3>4 DEF n
    <3> QED BY <2>2, <3>2, <3>5
  <2> QED BY <2>1, <2>2
<1> HIDE DEF p, l, m, b, v
<1>10. \A i \in m + 1 .. e : data[i] # "&"
  <2> SUFFICES ASSUME NEW i \in m + 1 .. e PROVE data[i] # "&"
    OBVIOUS
  <2> HIDE DEF e
  <2>1. CASE i = m + 1 \/ i = m + 2
    BY <1>3, <1>4, <2>1
  <2>2. CASE i # m + 1 /\ i # m + 2
    <3>1. i - (m + 2) \in 1 .. l /\ m + 2 + (i - (m + 2)) = i
      BY <1>3, <1>4, <2>2
    <3>2. /\ data[m + 2 + (i - (m + 2))] = Escaped(p.value[i - (m + 2)], plus)
          /\ p.value[i - (m + 2)] \in Characters
      BY <1>3, <1>4, <3>1
    <3> QED BY <3>1, <3>2, EscapedIs
  <2> QED BY <2>1, <2>2
<1>11. CASE k + 1 = Len(form)
  <2>1. Find("&", m + 1) = 0
    <3>1. m + 1 \in Nat \ {0}
      BY <1>4
    <3>2. \A i \in m + 1 .. Len(data) : data[i] # "&"
      BY <1>9, <1>10, <1>11
    <3> QED BY <1>1, <3>1, <3>2, FindNowhere
  <2>2. args' = AddToken(args, SubSeq(data, m + 1, Len(data))) /\ pstate' = "select"
    BY <1>0, <2>1 DEF SplitToken, Move
  <2>3. args' = AddToken(args, b)
    BY <1>9, <1>11, <2>2 DEF b
  <2>4. DecodedFirst(args, k + 1)' /\ form' = form
    BY <1>8, <2>3 DEF SplitToken
  <2>5. UrlAfter(a, k + 1)'
    BY <1>11, <2>2, <2>4 DEF UrlAfter, PairAfter
  <2> QED BY <1>2, <2>5
<1>12. CASE k + 1 # Len(form)
  <2> HIDE DEF e
  <2>0. m + 1 \in Nat \ {0} /\ e + 1 \in Nat /\ m + 1 <= e + 1 /\ (e + 1) - 1 = e /\ e + 1 # 0
        /\ (e + 1) + 1 = e + 1 + 1
    BY <1>3, <1>4
  <2>1. Find("&", m + 1) = e + 1
    BY <1>1, <1>9, <1>10, <1>12, <2>0, FindHere
  <2>2. args' = AddToken(args, SubSeq(data, m + 1, (e + 1) - 1)) /\ pstate' = "split"
        /\ pos' = (e + 1) + 1
    BY <1>0, <2>0, <2>1 DEF SplitToken, Move
  <2>3. args' = AddToken(args, b)
    BY <2>0, <2>2 DEF b, e
  <2>4. DecodedFirst(args, k + 1)' /\ form' = form
    BY <1>8, <2>3 DEF SplitToken
  <2>5. k + 1 < Len(form)
    BY <1>1, <1>2, <1>12
  <2>6. pos' = a[k + 1] + Sep(k + 1) + 1
    BY <1>9, <1>12, <2>2 DEF e
  <2>7. UrlAfter(a, k + 1)'
    BY <2>2, <2>4, <2>5, <2>6 DEF UrlAfter, PairAfter
  <2> QED BY <1>2, <2>7
<1> QED
  BY <1>11, <1>12

LEMMA UrlStep ==
  ASSUME Sending, content \in {"query", "urlencoded"}, NEW a, NEW plus \in BOOLEAN,
         PairsAt(form, data, a, plus), NEW k \in 0 .. Len(form), UrlAfter(a, k), ANext
  PROVE  \E j \in 0 .. Len(form) : UrlAfter(a, j)'
<1>0. content # "multipart"
  OBVIOUS
<1>1. CASE Dispatch
  <2>1. k = 0 /\ SameArgs
    BY <1>1 DEF Dispatch, Finish, SameArgs, UrlAfter, PairAfter
  <2>2. DecodedFirst(args, k)'
    BY <2>1, SameDecoded DEF UrlAfter
  <2>3. form' = form
    BY <2>1 DEF SameArgs
  <2>4. Len(form) \in Nat /\ data \in Seq(Tokens) /\ a[0] = 0 /\ a[Len(form)] = Len(data)
    BY DEF Sending, PairsAt
  <2>5. CASE content = "query" /\ data = <<>>
    <3>1. pstate' = "done" /\ outcome' = "internal_server_error"
      BY <1>1, <2>5 DEF Dispatch, Finish
    <3> QED BY <2>2, <3>1 DEF UrlAfter, PairAfter
  <2>6. CASE data = <<>> /\ content # "query"
    <3>1. pstate' = "select"
      BY <1>1, <2>6 DEF Dispatch, Move
    <3>2. Len(form) = 0
      <4> SUFFICES ASSUME Len(form) # 0 PROVE FALSE
        OBVIOUS
      <4>1. 0 \in 0 .. Len(form) - 1 /\ Len(data) = 0
        BY <2>4, <2>6
      <4>2. form[0 + 1] \in Pairs /\ a[0] \in Nat /\ Sep(0) \in Nat
            /\ a[0 + 1] = a[0] + Sep(0) + 2 + Len(form[0 + 1].value) /\ a[0 + 1] <= Len(data)
        BY <4>1, PairIs
      <4> DEFINE n == Len(form[0 + 1].value)
      <4>3. n \in Nat
        BY <4>2, ValueType
      <4> HIDE DEF n
      <4> QED BY <4>1, <4>2, <4>3 DEF n
    <3> QED BY <2>1, <2>2, <2>3, <3>1, <3>2 DEF UrlAfter, PairAfter
  <2>7. CASE data # <<>>
    <3>1. pstate' = "split" /\ pos' = 1
      BY <1>1, <2>7 DEF Dispatch, Move
    <3>2. Len(form) # 0
      BY <2>4, <2>7
    <3>3. 0 < Len(form) /\ 1 = a[0] + Sep(0) + 1
      BY <2>4, <3>2 DEF Sep
    <3> QED BY <2>1, <2>2, <2>3, <3>1, <3>3 DEF UrlAfter, PairAfter
  <2> QED BY <2>5, <2>6, <2>7
<1>2. CASE SelectOperation
  <2>1. pstate = "select" /\ pstate' = "done" /\ SameArgs
    BY <1>2 DEF SelectOperation, Finish, SameArgs
  <2>2. DecodedFirst(args, k)' /\ form' = form
    BY <2>1, SameDecoded DEF UrlAfter, SameArgs
  <2> QED
    BY <2>1, <2>2 DEF UrlAfter, PairAfter
<1>3. CASE SplitToken
  BY <1>0, <1>3, SplitStep
<1>4. CASE FindBoundaryStart \/ ReadBoundaryStart \/ ReadPartHeader \/ ReadPartBody
  BY <1>4 DEF FindBoundaryStart, ReadBoundaryStart, ReadPartHeader, ReadPartBody, UrlAfter, PairAfter
<1> QED
  BY <1>1, <1>2, <1>3, <1>4 DEF ANext

-----------------------------------------------------------------------------
(* The inductive invariant *)

Parsers == {"find_boundary_start", "read_boundary_start", "read_header", "read_body"}

\* How far the arguments are, for each way to send a form.
Progress ==
  /\ content = "multipart" /\ damage # "dropped" =>
       \E a : FormAt(a) /\ \E k \in 0 .. Len(form) : MultipartAfter(a, k)
  /\ content \in {"query", "urlencoded"} =>
       \E plus \in BOOLEAN : \E a :
         PairsAt(form, data, a, plus) /\ \E k \in 0 .. Len(form) : UrlAfter(a, k)

\* Which states and outcomes a request can have.
Ways ==
  /\ damage # "none" => content = "multipart"
  /\ pstate = "dispatch" => pos = 1
  /\ outcome = "handler" =>
       pstate = "done" /\ content \in {"multipart", "query", "urlencoded"}
  /\ pstate = "split" => content \in {"query", "urlencoded"}
  /\ pstate \in Parsers => content = "multipart"
  /\ pstate = "select" => content \in {"multipart", "query", "urlencoded"}

AInv == Sending /\ Ways /\ Progress /\ ATypeOK

LEMMA FormsType ==
  ASSUME NEW f \in Forms
  PROVE  f \in Seq(Pairs) /\ Distinct(f)
<1>1. f \in BoundedSeq(Pairs, MaxPairs) /\ Distinct(f)
  BY DEF Forms, Distinct
<1>2. PICK n \in 0 .. MaxPairs : f \in [1 .. n -> Pairs]
  BY <1>1 DEF BoundedSeq, SeqOf
<1>3. n \in Nat
  BY ArgumentsAssumption
<1> QED BY <1>1, <1>2, <1>3

LEMMA SentIs ==
  ASSUME AInit
  PROVE  /\ Sending
         /\ damage # "none" => content = "multipart"
         /\ content = "multipart" /\ damage # "dropped" => \E a : FormAt(a)
         /\ content \in {"query", "urlencoded"} =>
              \E plus \in BOOLEAN : \E a : PairsAt(form, data, a, plus)
<1>1. content \in Contents /\ form \in Seq(Pairs) /\ Distinct(form)
  BY FormsType DEF AInit
<1>2. PICK s \in Sent(content, form) : damage = s.damage /\ data = s.data
  BY DEF AInit
<1>3. CASE content \in {"query", "urlencoded"}
  <2>1. PICK plus \in BOOLEAN : s = [damage |-> "none", data |-> UrlEncoded(form, plus)]
    BY <1>2, <1>3 DEF Sent
  <2>2. damage = "none" /\ data = UrlEncoded(form, plus)
    BY <1>2, <2>1
  <2>3. data \in Seq(Tokens) /\ \E a : PairsAt(form, data, a, plus)
    BY <1>1, <2>2, UrlEncodedIs
  <2> QED BY <1>1, <1>3, <2>2, <2>3 DEF Sending
<1>4. CASE content = "multipart"
  <2> DEFINE d == Multipart(form)
  <2>0. d \in Seq(Tokens)
    BY <1>1, MultipartIs
  <2>1. PICK a : PartsAt(form, d, a) /\ Len(d) = a[Len(form)] + 3
    BY <1>1, MultipartIs
  <2>2. s \in Damaged(d)
    BY <1>2, <1>4 DEF Sent
  <2> HIDE DEF d
  <2>3. CASE s = [damage |-> "none", data |-> d]
    <3>1. damage = "none" /\ data = d
      BY <1>2, <2>3
    <3> QED BY <1>1, <1>4, <2>0, <2>1, <3>1 DEF Sending, FormAt
  <2>4. CASE \E n \in 0 .. Len(d) - 1 : s = [damage |-> "cut", data |-> SubSeq(d, 1, n)]
    <3>1. PICK n \in 0 .. Len(d) - 1 : s = [damage |-> "cut", data |-> SubSeq(d, 1, n)]
      BY <2>4
    <3>2. damage = "cut" /\ data = SubSeq(d, 1, n) /\ n \in 0 .. Len(d)
      BY <1>2, <2>0, <3>1
    <3>3. data \in Seq(Tokens) /\ PartsAt(form, data, a)
      BY <1>1, <2>0, <2>1, <3>2, CutIs
    <3> QED BY <1>1, <1>4, <3>2, <3>3 DEF Sending, FormAt
  <2>5. CASE \E i \in DOMAIN d : s = [damage |-> "dropped", data |-> RemoveAt(d, i)]
    <3>1. PICK i \in DOMAIN d : s = [damage |-> "dropped", data |-> RemoveAt(d, i)]
      BY <2>5
    <3>2. damage = "dropped" /\ data = RemoveAt(d, i) /\ i \in 1 .. Len(d)
      BY <1>2, <2>0, <3>1
    <3>3. data \in Seq(Tokens)
      BY <2>0, <3>2, RemoveType
    <3> QED BY <1>1, <1>4, <3>2, <3>3 DEF Sending
  <2> QED BY <2>2, <2>3, <2>4, <2>5 DEF Damaged
<1>5. CASE content \notin {"query", "urlencoded", "multipart"}
  <2>1. s = [damage |-> "none", data |-> <<>>]
    BY <1>2, <1>5 DEF Sent
  <2>2. damage = "none" /\ data = <<>> /\ data \in Seq(Tokens)
    BY <1>2, <2>1
  <2> QED BY <1>1, <1>5, <2>2 DEF Sending
<1> QED BY <1>3, <1>4, <1>5

LEMMA AInitOK ==
  ASSUME AInit
  PROVE  AInv
<1>1. Sending /\ (damage # "none" => content = "multipart")
  BY SentIs
<1>2. /\ pstate = "dispatch" /\ pos = 1 /\ args = [n \in {} |-> <<>>] /\ param_name = ""
      /\ outcome = "none"
  BY DEF AInit
<1>3. Ways
  BY <1>1, <1>2 DEF Ways, Parsers
<1>4. DecodedFirst(args, 0)
  <2>1. DOMAIN args = {} /\ args = [n \in DOMAIN args |-> args[n]]
    BY <1>2
  <2>2. 1 .. 0 = {}
    OBVIOUS
  <2>3. {form[i].name : i \in 1 .. 0} = {}
    BY <2>2
  <2> QED BY <2>1, <2>2, <2>3, Zenon DEF DecodedFirst
<1>5. 0 \in 0 .. Len(form) /\ Len(form) \in Nat /\ Len(data) \in Nat
  BY <1>1 DEF Sending
<1>6. Progress
  <2>1. \A a : MultipartAfter(a, 0) /\ UrlAfter(a, 0)
    BY <1>2, <1>4 DEF MultipartAfter, UrlAfter, PartAfter, PairAfter
  <2> QED BY <1>5, <2>1, SentIs DEF Progress
<1>7. ATypeOK
  <2>1. pos \in 1 .. Len(data) + 1
    <3>1. 1 \in 1 .. Len(data) + 1
      BY <1>5
    <3>2. pos = 1
      BY <1>2
    <3> QED BY <3>1, <3>2
  <2>2. DOMAIN args = {}
    BY <1>2
  <2> QED BY <1>1, <1>2, <2>1, <2>2 DEF ATypeOK, Sending
<1> QED BY <1>1, <1>3, <1>6, <1>7 DEF AInv

LEMMA FindType ==
  ASSUME data \in Seq(Tokens), NEW t, NEW from \in Nat \ {0}
  PROVE  /\ Find(t, from) \in 0 .. Len(data)
         /\ Find(t, from) # 0 => from <= Find(t, from)
<1>1. IsFound(Find(t, from), t, from)
  BY FindIs
<1> DEFINE r == Find(t, from)
<1> HIDE DEF r
<1>2. IsFound(r, t, from) /\ Len(data) \in Nat
  BY <1>1 DEF r
<1>3. r \in 0 .. Len(data) /\ (r # 0 => from <= r)
  BY <1>2 DEF IsFound
<1> QED BY <1>3 DEF r

LEMMA NameType ==
  ASSUME param_name \in Names \cup {""}, NEW from, NEW crlf
  PROVE  NameOf(from, crlf) \in Names \cup {""}
  BY DEF NameOf

LEMMA AStep ==
  ASSUME AInv, ANext
  PROVE  AInv'
<1>0. Sending /\ Ways /\ Progress /\ ATypeOK
  BY DEF AInv
<1>1. UNCHANGED <<content, form, damage, data>>
  BY DEF ANext, Dispatch, SelectOperation, SplitToken, FindBoundaryStart, ReadBoundaryStart,
         ReadPartHeader, ReadPartBody
<1>2. Sending'
  BY <1>0, <1>1 DEF Sending
<1>3. Ways'
  <2>1. CASE Dispatch
    BY <1>0, <1>1, <2>1 DEF Dispatch, Finish, Move, Ways, Parsers, Sending, Contents
  <2>2. CASE SelectOperation
    BY <1>0, <1>1, <2>2 DEF SelectOperation, Finish, Ways, Parsers
  <2>3. CASE SplitToken
    <3>1. pstate' \in {"split", "select"} /\ pstate = "split" /\ outcome' = outcome
      BY <2>3 DEF SplitToken, Move
    <3> QED BY <1>0, <1>1, <3>1 DEF Ways, Parsers
  <2>4. CASE FindBoundaryStart \/ ReadBoundaryStart \/ ReadPartHeader \/ ReadPartBody
    <3>1. pstate' \in Parsers \cup {"select"} /\ pstate \in Parsers /\ outcome' = outcome
      BY <2>4 DEF FindBoundaryStart, ReadBoundaryStart, ReadPartHeader, ReadPartBody,
                  ReturnArgs, DropRest, AfterBody, Move, Parsers
    <3> QED BY <1>0, <1>1, <3>1 DEF Ways, Parsers
  <2> QED BY <2>1, <2>2, <2>3, <2>4 DEF ANext
<1>4. Progress'
  <2>1. ASSUME content = "multipart", damage # "dropped"
        PROVE  \E a : FormAt(a)' /\ \E k \in 0 .. Len(form) : MultipartAfter(a, k)'
    <3>1. PICK a : FormAt(a) /\ \E k \in 0 .. Len(form) : MultipartAfter(a, k)
      BY <1>0, <2>1 DEF Progress
    <3>2. PICK k \in 0 .. Len(form) : MultipartAfter(a, k)
      BY <3>1
    <3>3. \E j \in 0 .. Len(form) : MultipartAfter(a, j)'
      BY <1>0, <2>1, <3>1, <3>2, MultipartStep
    <3>4. FormAt(a)'
      BY <1>1, <3>1 DEF FormAt
    <3> QED BY <3>3, <3>4
  <2>2. ASSUME content \in {"query", "urlencoded"}
        PROVE  \E plus \in BOOLEAN : \E a :
                 PairsAt(form, data, a, plus) /\ \E k \in 0 .. Len(form) : UrlAfter(a, k)'
    <3>1. PICK plus \in BOOLEAN : \E a :
            PairsAt(form, data, a, plus) /\ \E k \in 0 .. Len(form) : UrlAfter(a, k)
      BY <1>0, <2>2 DEF Progress
    <3>2. PICK a : PairsAt(form, data, a, plus) /\ \E k \in 0 .. Len(form) : UrlAfter(a, k)
      BY <3>1
    <3>3. PICK k \in 0 .. Len(form) : UrlAfter(a, k)
      BY <3>2
    <3>4. \E j \in 0 .. Len(form) : UrlAfter(a, j)'
      BY <1>0, <2>2, <3>2, <3>3, UrlStep
    <3> QED BY <3>2, <3>4
  <2> QED BY <1>1, <2>1, <2>2 DEF Progress
<1>5. Len(data) \in Nat /\ data \in Seq(Tokens) /\ pos \in 1 .. Len(data) + 1
      /\ pos \in Nat \ {0} /\ Len(form) \in Nat /\ form \in Seq(Pairs)
  <2>1. data \in Seq(Tokens) /\ form \in Seq(Pairs)
    BY <1>0 DEF Sending
  <2>2. Len(data) \in Nat /\ Len(form) \in Nat
    BY <2>1
  <2>3. pos \in 1 .. Len(data) + 1
    BY <1>0 DEF ATypeOK
  <2>4. pos \in Nat \ {0}
    BY <2>2, <2>3
  <2> QED BY <2>1, <2>2, <2>3, <2>4
<1>6. pos' \in 1 .. Len(data) + 1
  <2>1. CASE Dispatch \/ SelectOperation
    <3>1. pos' = 1 \/ pos' = pos
      BY <2>1 DEF Dispatch, SelectOperation, Finish, Move
    <3>2. 1 \in 1 .. Len(data) + 1
      BY <1>5
    <3> QED BY <1>5, <3>1, <3>2
  <2>2. CASE SplitToken
    <3> DEFINE r == Find("&", pos)
    <3>1. r \in 0 .. Len(data)
      BY <1>5, FindType
    <3>2. pos' = IF r = 0 THEN pos ELSE r + 1
      BY <2>2 DEF SplitToken, Move
    <3> HIDE DEF r
    <3> QED BY <1>5, <3>1, <3>2
  <2>3. CASE FindBoundaryStart
    <3> DEFINE r == Find("boundary", pos)
    <3>1. r \in 0 .. Len(data)
      BY <1>5, FindType
    <3>2. pos' = pos \/ (r # 0 /\ pos' = r)
      BY <2>3 DEF FindBoundaryStart, ReturnArgs, Move
    <3> HIDE DEF r
    <3> QED BY <1>5, <3>1, <3>2
  <2>4. CASE ReadBoundaryStart
    BY <1>5, <2>4 DEF ReadBoundaryStart, EndsLine, At, ReturnArgs, Move
  <2>5. CASE ReadPartHeader
    <3> DEFINE c == Find(":", pos)
               r == IF c = 0 THEN 0 ELSE Find("crlf", c + 1)
    <3>1. c \in 0 .. Len(data)
      BY <1>5, FindType
    <3>2. r \in 0 .. Len(data)
      <4>1. CASE c = 0
        BY <1>5, <4>1
      <4>2. CASE c # 0
        <5> HIDE DEF c
        <5>1. c + 1 \in Nat \ {0}
          BY <1>5, <3>1
        <5>2. Find("crlf", c + 1) \in 0 .. Len(data)
          BY <1>5, <5>1, FindType
        <5> QED BY <4>2, <5>2
      <4> QED BY <4>1, <4>2
    <3>3. \/ pos' = pos
          \/ r # 0 /\ At(r + 1, "crlf") /\ pos' = r + 2
          \/ r # 0 /\ pos' = r + 1
      BY <2>5 DEF ReadPartHeader, ReturnArgs, Move
    <3> HIDE DEF r
    <3> QED BY <1>5, <3>2, <3>3 DEF At
  <2>6. CASE ReadPartBody
    <3> DEFINE r == Find("boundary", pos)
    <3>1. r \in 0 .. Len(data)
      BY <1>5, FindType
    <3>2. pos' = pos \/ (r # 0 /\ pos' = r)
      BY <2>6 DEF ReadPartBody, DropRest, ReturnArgs, Move
    <3> HIDE DEF r
    <3> QED BY <1>5, <3>1, <3>2
  <2> QED BY <2>1, <2>2, <2>3, <2>4, <2>5, <2>6 DEF ANext
<1>7. param_name' \in Names \cup {""}
  <2>1. param_name \in Names \cup {""}
    BY <1>0 DEF ATypeOK
  <2>2. CASE ReadPartHeader
    <3>1. param_name' = param_name \/ \E c, r : param_name' = NameOf(c, r)
      BY <2>2 DEF ReadPartHeader, ReturnArgs
    <3> QED BY <2>1, <3>1, NameType
  <2>3. CASE ~ ReadPartHeader
    <3>1. param_name' = param_name \/ param_name' = ""
      BY <2>3 DEF ANext, Dispatch, SelectOperation, Finish, SplitToken, FindBoundaryStart,
                  ReadBoundaryStart, ReadPartBody, ReturnArgs, DropRest
    <3> QED BY <2>1, <3>1
  <2> QED BY <2>2, <2>3
<1>8. DOMAIN args' \in SUBSET (Names \cup {""})
  <2>1. DOMAIN args \in SUBSET (Names \cup {""}) /\ param_name \in Names \cup {""}
    BY <1>0 DEF ATypeOK
  <2>2. CASE SplitToken
    <3>1. content \in {"query", "urlencoded"}
      BY <1>0, <2>2 DEF SplitToken, Ways
    <3>2. PICK k \in 0 .. Len(form) : DecodedFirst(args, k)'
      BY <1>1, <1>4, <3>1 DEF Progress, UrlAfter
    <3>3. DOMAIN args' = {form[i].name : i \in 1 .. k}
      BY <1>1, <3>2 DEF DecodedFirst
    <3>4. \A i \in 1 .. k : form[i].name \in Names
      <4>1. \A i \in 1 .. k : form[i] \in Pairs
        BY <1>5
      <4> QED BY <4>1 DEF Pairs
    <3> QED BY <3>3, <3>4
  <2>3. CASE ReadPartBody
    <3>1. args' = args \/ \E v : args' = Assign(args, param_name, v)
      BY <2>3 DEF ReadPartBody, DropRest, ReturnArgs
    <3> QED BY <2>1, <3>1 DEF Assign
  <2>4. CASE ~ SplitToken /\ ~ ReadPartBody
    <3>1. args' = args
      BY <2>4 DEF ANext, Dispatch, SelectOperation, Finish, FindBoundaryStart,
                  ReadBoundaryStart, ReadPartHeader, ReturnArgs
    <3> QED BY <2>1, <3>1
  <2> QED BY <2>2, <2>3, <2>4
<1>9. /\ outcome' \in {"none", "handler", "bad_request", "method_not_allowed",
                       "internal_server_error"}
      /\ pstate' \in {"dispatch", "split", "find_boundary_start", "read_boundary_start",
                      "read_header", "read_body", "select", "done"}
  BY <1>0 DEF ATypeOK, ANext, Dispatch, SelectOperation, Finish, SplitToken,
              FindBoundaryStart, ReadBoundaryStart, ReadPartHeader, ReadPartBody,
              ReturnArgs, DropRest, AfterBody, Move
<1>10. ATypeOK'
  BY <1>0, <1>1, <1>6, <1>7, <1>8, <1>9 DEF ATypeOK
<1> QED BY <1>2, <1>3, <1>4, <1>10 DEF AInv

LEMMA AStutter ==
  ASSUME AInv, UNCHANGED avars
  PROVE  AInv'
<1>0. UNCHANGED <<content, form, damage, data, pstate, pos, args, param_name, outcome>>
  BY DEF avars
<1>1. Sending' /\ Ways' /\ ATypeOK'
  BY <1>0 DEF AInv, Sending, Ways, ATypeOK
<1>2. \A a : FormAt(a) => FormAt(a)'
  BY <1>0 DEF FormAt
<1>6. ASSUME NEW k, DecodedFirst(args, k) PROVE DecodedFirst(args, k)'
  BY <1>0, <1>6, SameDecoded DEF SameArgs
<1>3. ASSUME NEW a, NEW k, MultipartAfter(a, k) PROVE MultipartAfter(a, k)'
  <2>1. PartAfter(a, k)'
    BY <1>0, <1>3 DEF MultipartAfter, PartAfter, HeaderAt
  <2> QED BY <1>3, <1>6, <2>1 DEF MultipartAfter
<1>4. ASSUME NEW a, NEW k, UrlAfter(a, k) PROVE UrlAfter(a, k)'
  <2>1. PairAfter(a, k)'
    BY <1>0, <1>4 DEF UrlAfter, PairAfter
  <2> QED BY <1>4, <1>6, <2>1 DEF UrlAfter
<1>5. Progress'
  BY <1>0, <1>2, <1>3, <1>4 DEF AInv, Progress
<1> QED BY <1>1, <1>5 DEF AInv

LEMMA AInvImplies ==
  ASSUME AInv
  PROVE  HandlerGetsTheForm
<1>0. Sending /\ Ways /\ Progress /\ form \in Seq(Pairs) /\ Distinct(form) /\ Len(form) \in Nat
  BY DEF AInv, Sending
<1>1. SubSeq(form, 1, Len(form)) = form
  BY <1>0, SubSeqFull
<1>2. ASSUME content = "multipart", damage # "dropped", pstate = "done"
      PROVE  \E k \in 0 .. Len(form) :
               Gets(args, SubSeq(form, 1, k)) /\ (damage = "none" => k = Len(form))
  <2>1. PICK a : FormAt(a) /\ \E k \in 0 .. Len(form) : MultipartAfter(a, k)
    BY <1>0, <1>2 DEF Progress
  <2>2. PICK k \in 0 .. Len(form) : MultipartAfter(a, k)
    BY <2>1
  <2>3. DecodedFirst(args, k) /\ (damage = "none" => k = Len(form))
    BY <1>2, <2>2 DEF MultipartAfter, PartAfter
  <2>4. Gets(args, SubSeq(form, 1, k))
    BY <1>0, <2>3, DecodedArrives
  <2> QED BY <2>3, <2>4
<1>3. ASSUME content \in {"query", "urlencoded"}, outcome = "handler"
      PROVE  Gets(args, form)
  <2>1. PICK a : \E k \in 0 .. Len(form) : UrlAfter(a, k)
    BY <1>0, <1>3 DEF Progress
  <2>2. PICK k \in 0 .. Len(form) : UrlAfter(a, k)
    BY <2>1
  <2>3. pstate = "done"
    BY <1>0, <1>3 DEF Ways
  <2>4. DecodedFirst(args, k) /\ k = Len(form)
    BY <1>3, <2>2, <2>3 DEF UrlAfter, PairAfter
  <2>5. Gets(args, SubSeq(form, 1, k))
    BY <1>0, <2>4, DecodedArrives
  <2> QED BY <1>1, <2>4, <2>5
<1>4. ASSUME outcome = "handler", damage = "none" PROVE Gets(args, form)
  <2>1. pstate = "done" /\ content \in {"multipart", "query", "urlencoded"}
    BY <1>0, <1>4 DEF Ways
  <2>2. CASE content = "multipart"
    <3>1. PICK k \in 0 .. Len(form) :
            Gets(args, SubSeq(form, 1, k)) /\ (damage = "none" => k = Len(form))
      BY <1>2, <1>4, <2>1, <2>2
    <3> QED BY <1>1, <1>4, <3>1
  <2>3. CASE content \in {"query", "urlencoded"}
    BY <1>3, <1>4, <2>3
  <2> QED BY <2>1, <2>2, <2>3
<1>5. ASSUME pstate = "done", damage = "cut"
      PROVE  \E k \in 0 .. Len(form) : Gets(args, SubSeq(form, 1, k))
  BY <1>0, <1>2, <1>5 DEF Ways
<1> QED BY <1>4, <1>5 DEF HandlerGetsTheForm

\* For any arguments, of any length: whatever values the client means -- line
\* ends, colons, separators -- and however it sends them, the handler gets them,
\* each character of them, but for a plus of what is URL-encoded; and of a
\* multipart form that ends early the first of them, whole (execute_operation,
\* to_argument_list, multipart_form_data.cpp).
THEOREM ArgumentsArrive == ASpec => []HandlerGetsTheForm
<1>1. AInit => AInv
  BY AInitOK
<1>2. AInv /\ [ANext]_avars => AInv'
  BY AStep, AStutter
<1>3. AInv => HandlerGetsTheForm
  BY AInvImplies
<1> QED
  BY <1>1, <1>2, <1>3, PTL DEF ASpec

-----------------------------------------------------------------------------
(* The parser ends *)

\* Bounds the steps that are left: the text behind pos, then what is to do with
\* no more of it.
Rank ==
  [s \in {"dispatch", "split", "select", "done"} \cup Parsers |->
     CASE s = "dispatch" -> 5
       [] s = "read_body" -> 4
       [] s = "find_boundary_start" -> 3
       [] s \in {"split", "read_boundary_start", "read_header"} -> 2
       [] s = "select" -> 1
       [] OTHER -> 0]

Remaining == 8 * (Len(data) + 1 - pos) + Rank[pstate]

LEMMA RankIs ==
  /\ Rank["dispatch"] = 5 /\ Rank["read_body"] = 4 /\ Rank["find_boundary_start"] = 3
  /\ Rank["split"] = 2 /\ Rank["read_boundary_start"] = 2 /\ Rank["read_header"] = 2
  /\ Rank["select"] = 1 /\ Rank["done"] = 0
  BY DEF Rank, Parsers

LEMMA RemainingNat ==
  ASSUME AInv
  PROVE  Remaining \in Nat
<1>1. Len(data) \in Nat /\ pos \in Nat /\ pos <= Len(data) + 1
  <2>1. data \in Seq(Tokens) /\ pos \in 1 .. Len(data) + 1
    BY DEF AInv, Sending, ATypeOK
  <2> QED BY <2>1
<1>2. Rank[pstate] \in Nat
  <2>1. pstate \in {"dispatch", "split", "find_boundary_start", "read_boundary_start",
                    "read_header", "read_body", "select", "done"}
    BY DEF AInv, ATypeOK
  <2> QED BY <2>1, RankIs
<1> QED BY <1>1, <1>2 DEF Remaining

LEMMA StepShortens ==
  ASSUME AInv, ANext
  PROVE  Remaining' < Remaining
<1>1. data \in Seq(Tokens) /\ pos \in 1 .. Len(data) + 1 /\ (pstate = "dispatch" => pos = 1)
  BY DEF AInv, Sending, ATypeOK, Ways
<1>2. Len(data) \in Nat /\ pos \in Nat \ {0} /\ pos <= Len(data) + 1
  BY <1>1
<1>3. data' = data
  BY DEF ANext, Dispatch, SelectOperation, SplitToken, FindBoundaryStart, ReadBoundaryStart,
         ReadPartHeader, ReadPartBody
<1>4. ASSUME NEW p \in Nat, pos' = p,
             \/ p = pos /\ Rank[pstate'] < Rank[pstate]
             \/ p > pos /\ Rank[pstate'] < Rank[pstate] + 8,
             Rank[pstate] \in Nat, Rank[pstate'] \in Nat
      PROVE  Remaining' < Remaining
  <2> DEFINE r == Rank[pstate]
             s == Rank[pstate']
             n == Len(data)
  <2>1. Remaining' = 8 * (n + 1 - p) + s /\ Remaining = 8 * (n + 1 - pos) + r
    BY <1>3, <1>4, Zenon DEF Remaining, Rank
  <2>2. r \in Nat /\ s \in Nat /\ n \in Nat /\ pos \in Nat /\ p \in Nat
    BY <1>2, <1>4
  <2>3. (p = pos /\ s < r) \/ (p > pos /\ s < r + 8)
    BY <1>4
  <2> HIDE DEF r, s, n
  <2> QED BY <2>1, <2>2, <2>3
<1>5. CASE Dispatch
  <2>1. pstate = "dispatch" /\ pos = 1 /\ (pos' = 1 \/ pos' = pos)
        /\ pstate' \in {"done", "select", "find_boundary_start", "split"}
    BY <1>1, <1>5 DEF Dispatch, Finish, Move
  <2>2. pos' = pos /\ pos \in Nat
    BY <1>2, <2>1
  <2> QED BY <1>4, <2>1, <2>2, RankIs
<1>6. CASE SelectOperation
  <2>1. pstate = "select" /\ pstate' = "done" /\ pos' = pos /\ pos \in Nat
    BY <1>2, <1>6 DEF SelectOperation, Finish
  <2> QED BY <1>4, <2>1, RankIs
<1>7. CASE SplitToken
  <2> DEFINE r == Find("&", pos)
  <2>1. r \in 0 .. Len(data) /\ (r # 0 => pos <= r)
    BY <1>1, <1>2, FindType
  <2>2. /\ pstate = "split"
        /\ \/ pstate' = "select" /\ pos' = pos
           \/ r # 0 /\ pstate' = "split" /\ pos' = r + 1
    BY <1>7 DEF SplitToken, Move
  <2> HIDE DEF r
  <2>3. pos \in Nat /\ r + 1 \in Nat /\ (r # 0 => r + 1 > pos)
    BY <1>2, <2>1
  <2> QED BY <1>4, <2>2, <2>3, RankIs
<1>8. CASE FindBoundaryStart
  <2> DEFINE r == Find("boundary", pos)
  <2>1. r \in 0 .. Len(data) /\ (r # 0 => pos <= r)
    BY <1>1, <1>2, FindType
  <2>2. /\ pstate = "find_boundary_start"
        /\ \/ pstate' = "select" /\ pos' = pos
           \/ r # 0 /\ pstate' = "read_boundary_start" /\ pos' = r
    BY <1>8 DEF FindBoundaryStart, ReturnArgs, Move
  <2> HIDE DEF r
  <2>3. pos \in Nat /\ r \in Nat /\ (r # 0 => r = pos \/ r > pos)
    BY <1>2, <2>1
  <2> QED BY <1>4, <2>2, <2>3, RankIs
<1>9. CASE ReadBoundaryStart
  <2>1. /\ pstate = "read_boundary_start"
        /\ \/ pstate' = "select" /\ pos' = pos
           \/ pstate' = "read_header" /\ pos' = pos + 2
    BY <1>9 DEF ReadBoundaryStart, ReturnArgs, Move
  <2>2. pos \in Nat /\ pos + 2 \in Nat /\ pos + 2 > pos
    BY <1>2
  <2> QED BY <1>4, <2>1, <2>2, RankIs
<1>10. CASE ReadPartHeader
  <2> DEFINE c == Find(":", pos)
             r == IF c = 0 THEN 0 ELSE Find("crlf", c + 1)
  <2>1. c \in 0 .. Len(data) /\ (c # 0 => pos <= c)
    BY <1>1, <1>2, FindType
  <2>2. r \in 0 .. Len(data) /\ (r # 0 => pos < r)
    <3>1. CASE c = 0
      BY <1>2, <3>1
    <3>2. CASE c # 0
      <4> HIDE DEF c
      <4>1. c + 1 \in Nat \ {0} /\ pos < c + 1
        BY <1>2, <2>1, <3>2
      <4> DEFINE d == Find("crlf", c + 1)
      <4>2. d \in 0 .. Len(data) /\ (d # 0 => c + 1 <= d)
        BY <1>1, <4>1, FindType
      <4>3. r = d
        BY <3>2
      <4> HIDE DEF d, r
      <4> QED BY <1>2, <4>1, <4>2, <4>3
    <3> QED BY <3>1, <3>2
  <2>3. /\ pstate = "read_header"
        /\ \/ pstate' = "select" /\ pos' = pos
           \/ r # 0 /\ pstate' = "read_body" /\ pos' = r + 2
           \/ r # 0 /\ pstate' = "read_header" /\ pos' = r + 1
    BY <1>10 DEF ReadPartHeader, ReturnArgs, Move
  <2> HIDE DEF r
  <2>4. pos \in Nat /\ r + 1 \in Nat /\ r + 2 \in Nat /\ (r # 0 => r + 1 > pos /\ r + 2 > pos)
    BY <1>2, <2>2
  <2> QED BY <1>4, <2>3, <2>4, RankIs
<1>11. CASE ReadPartBody
  <2> DEFINE r == Find("boundary", pos)
  <2>1. r \in 0 .. Len(data) /\ (r # 0 => pos <= r)
    BY <1>1, <1>2, FindType
  <2>2. /\ pstate = "read_body"
        /\ \/ pstate' = "select" /\ pos' = pos
           \/ r # 0 /\ pstate' = "find_boundary_start" /\ pos' = r
    BY <1>11 DEF ReadPartBody, DropRest, AfterBody, ReturnArgs, Move
  <2> HIDE DEF r
  <2>3. pos \in Nat /\ r \in Nat /\ (r # 0 => r = pos \/ r > pos)
    BY <1>2, <2>1
  <2> QED BY <1>4, <2>2, <2>3, RankIs
<1> QED
  BY <1>5, <1>6, <1>7, <1>8, <1>9, <1>10, <1>11 DEF ANext

\* Whatever is sent, of any length, every step of the parser leaves less to do
\* than the one before: it cannot go round (the loops of to_argument_list and of
\* the four states of multipart_form_data.cpp).  Dispatched needs, besides, that
\* a request that is not done has a step.
THEOREM ParserAdvances == ASpec => [](Remaining \in Nat) /\ [][Remaining' < Remaining]_avars
<1>1. AInit => AInv
  BY AInitOK
<1>2. AInv /\ [ANext]_avars => AInv'
  BY AStep, AStutter
<1>3. AInv => Remaining \in Nat
  BY RemainingNat
<1>4. AInv /\ [ANext]_avars => [Remaining' < Remaining]_avars
  BY StepShortens
<1> QED
  BY <1>1, <1>2, <1>3, <1>4, PTL DEF ASpec

-----------------------------------------------------------------------------
(* A connection, and a request *)

\* Every variable of both keeps its type: the parser never looks behind the end
\* of a text by more than a token, and no argument has a name that nobody sent,
\* whatever a form lacks.
THEOREM BothTypeCorrect == MCSpec => []TypesOK
<1>1. MCInit => IInv /\ AInv
  BY InitOK, AInitOK DEF MCInit
<1>2. IInv /\ AInv /\ [MCNext]_<<part, vars, avars>> => (IInv /\ AInv)'
  <2> SUFFICES ASSUME IInv, AInv, [MCNext]_<<part, vars, avars>>
               PROVE  IInv' /\ AInv'
    OBVIOUS
  <2>1. ([Next]_vars) /\ ([ANext]_avars)
    BY DEF MCNext
  <2>2. IInv'
    BY <2>1, StepOK
  <2>3. AInv'
    BY <2>1, AStep, AStutter
  <2> QED BY <2>2, <2>3
<1>3. IInv /\ AInv => TypesOK
  BY DEF IInv, AInv, TypesOK
<1> QED
  BY <1>1, <1>2, <1>3, PTL DEF MCSpec
=============================================================================
