------------------------ MODULE DataObjectWriteProofs ------------------------
(***************************************************************************)
(* Where the bytes of writes go, for every number of writes and streams,   *)
(* and for bodies and chunks of every size.                                *)
(***************************************************************************)
EXTENDS DataObjectWrite, FiniteSetTheorems, TLAPS

Has(w) == sid[w] # NoStream

\* A write has its stream from the time it picks one to the end of it, and a
\* stream that was found free is marked.
HoldsOK(w) ==
  /\ Has(w) => /\ req[w].kind = "plain" => sid[w] = w
               /\ req[w].kind # "plain" => sid[w] \in Streams
               /\ req[w].kind = "auto" => sid[w] \in inUse
  /\ pc[w] \in {"check", "chunk", "write"} => Has(w)
  /\ pc[w] \in {"idle", "pick"} => ~Has(w)
  /\ pc[w] # "idle" => req[w] \in Requests

\* Two writes have one stream only if a client named it by stream-index.
Unshared ==
  \A v, w \in Writers :
    v # w /\ Has(v) /\ sid[v] = sid[w] =>
      /\ v \in shared /\ w \in shared
      /\ "index" \in {req[v].kind, req[w].kind}

\* Between its chunks, the stream of a write is where the write left it, unless
\* a chunk failed.
PositionOK(w) ==
  req[w].offset # NoOffset =>
    /\ pc[w] \in {"chunk", "write"} => req[w].offset \in Nat
    /\ w \notin shared =>
         /\ pc[w] = "chunk" /\ sid[w] \notin bad =>
              position[sid[w]] = req[w].offset + sent[w]
         /\ pc[w] = "write" => at[w] = req[w].offset + sent[w]
         /\ \A b \in landed[w] : b[1] = req[w].offset + b[2]

\* Chunks begin at the multiples of their size.
Multiple(n) == \E q \in Nat : n = q * ChunkBytes

\* k bytes of w are in the object: it failed in the chunk that begins at c.
FailedIn(w, c, k) ==
  /\ c \in Nat /\ Multiple(c) /\ c < req[w].bytes
  /\ k \in Nat /\ c <= k
  /\ sent[w] = Smaller(c + ChunkBytes, req[w].bytes)
  /\ Written(w) = 0 .. k - 1

\* What is written is all that was sent, or the stream failed, and no chunk
\* follows.
BeginningOK(w) ==
  /\ pc[w] \in {"idle", "pick", "check"} => sent[w] = 0 /\ landed[w] = {}
  /\ pc[w] \in {"chunk", "write"} => sent[w] = req[w].bytes \/ Multiple(sent[w])
  /\ pc[w] = "write" => sent[w] < req[w].bytes
  /\ \/ Written(w) = 0 .. sent[w] - 1
     \/ /\ pc[w] # "write" /\ sid[w] \in bad
        /\ \E c, k \in Nat : FailedIn(w, c, k)
  /\ reply[w] = "ok" => pc[w] = "sent" /\ sent[w] = req[w].bytes

WriterOK(w) == HoldsOK(w) /\ PositionOK(w) /\ BeginningOK(w)

\* The inductive invariant.
IInv == TypeOK /\ Unshared /\ \A w \in Writers : WriterOK(w)

-----------------------------------------------------------------------------
(* Chunks *)

\* The bytes of a chunk.
LEMMA ChunkSize ==
  ASSUME TypeOK, NEW w \in Writers, sent[w] < req[w].bytes, req[w] \in Requests
  PROVE  /\ Chunk(w) = sent[w] .. Smaller(sent[w] + ChunkBytes, req[w].bytes) - 1
         /\ Cardinality(Chunk(w)) = Smaller(sent[w] + ChunkBytes, req[w].bytes) - sent[w]
         /\ Smaller(sent[w] + ChunkBytes, req[w].bytes) \in Nat
         /\ sent[w] < Smaller(sent[w] + ChunkBytes, req[w].bytes)
         /\ Smaller(sent[w] + ChunkBytes, req[w].bytes) <= req[w].bytes
<1> DEFINE m == Smaller(sent[w] + ChunkBytes, req[w].bytes)
<1>1. sent[w] \in Nat /\ req[w].bytes \in Nat /\ ChunkBytes \in Nat \ {0}
  BY ConstantsAssumption DEF TypeOK, Requests
<1>2. m \in Nat /\ sent[w] < m /\ m <= req[w].bytes
  BY <1>1 DEF Smaller
<1> HIDE DEF m
<1>3. Cardinality(sent[w] .. m - 1) = m - sent[w]
  <2>1. sent[w] \in Int /\ m - 1 \in Int /\ ~(sent[w] > m - 1)
    BY <1>1, <1>2
  <2>2. Cardinality(sent[w] .. m - 1) =
          IF sent[w] > m - 1 THEN 0 ELSE (m - 1) - sent[w] + 1
    BY <2>1, FS_Interval
  <2> QED
    BY <1>1, <1>2, <2>1, <2>2
<1>4. Chunk(w) = sent[w] .. m - 1
  BY DEF Chunk, m
<1> QED
  BY <1>2, <1>3, <1>4 DEF m

\* The last chunk begins no later than a chunk that reaches the end.
LEMMA LastChunk ==
  ASSUME NEW c \in Nat, Multiple(c), NEW n \in Nat \ {0}, n <= c + ChunkBytes
  PROVE  ((n - 1) \div ChunkBytes) * ChunkBytes <= c
<1> DEFINE d == (n - 1) \div ChunkBytes
<1>1. ChunkBytes \in Nat \ {0}
  BY ConstantsAssumption
<1>2. PICK q \in Nat : c = q * ChunkBytes
  BY DEF Multiple
<1>3. d \in Int /\ d * ChunkBytes <= n - 1
  BY <1>1
<1>4. d * ChunkBytes < (q + 1) * ChunkBytes
  BY <1>1, <1>2, <1>3
<1>5. d < q + 1
  BY <1>1, <1>3, <1>4
<1>6. d <= q
  BY <1>3, <1>5
<1> HIDE DEF d
<1>7. d * ChunkBytes <= q * ChunkBytes
  BY <1>1, <1>3, <1>6
<1> QED
  BY <1>2, <1>7 DEF d

\* The next multiple.
LEMMA NextMultiple ==
  ASSUME NEW n \in Nat, Multiple(n)
  PROVE  Multiple(n + ChunkBytes)
<1>1. PICK q \in Nat : n = q * ChunkBytes
  BY DEF Multiple
<1>2. n + ChunkBytes = (q + 1) * ChunkBytes
  BY <1>1, ConstantsAssumption
<1> QED
  BY <1>2 DEF Multiple

\* The bytes of a chunk that come before number n are added to what is written,
\* each at its place.
LEMMA LandWrites ==
  ASSUME TypeOK, NEW w \in Writers, NEW n, Land(w, n)
  PROVE  /\ Written(w)' = Written(w) \cup {j \in Chunk(w) : j < n}
         /\ \A b \in landed'[w] :
              b \in landed[w] \/ \E i \in Chunk(w) : i < n /\ b = <<at[w] + i - sent[w], i>>
         /\ \A v \in Writers \ {w} : landed'[v] = landed[v]
<1> DEFINE new == {<<at[w] + i - sent[w], i>> : i \in {j \in Chunk(w) : j < n}}
<1>1. landed'[w] = landed[w] \cup new
  BY DEF Land, TypeOK
<1>2. {b[2] : b \in new} = {j \in Chunk(w) : j < n}
  <2>1. \A i : <<at[w] + i - sent[w], i>>[2] = i
    OBVIOUS
  <2>2. \A b \in new : b[2] \in {j \in Chunk(w) : j < n}
    BY <2>1
  <2>3. \A i \in {j \in Chunk(w) : j < n} : \E b \in new : b[2] = i
    BY <2>1
  <2> QED
    BY <2>2, <2>3
<1>3. Written(w)' = Written(w) \cup {b[2] : b \in new}
  BY <1>1 DEF Written
<1>4. \A b \in new : \E i \in Chunk(w) : i < n /\ b = <<at[w] + i - sent[w], i>>
  OBVIOUS
<1>5. \A v \in Writers \ {w} : landed'[v] = landed[v]
  BY DEF Land, TypeOK
<1> QED
  BY <1>1, <1>2, <1>3, <1>4, <1>5

-----------------------------------------------------------------------------
(* The inductive step *)

\* A step of another write keeps what is true of v, if it leaves v's stream
\* where it is, or shares it.
LEMMA OtherOK ==
  ASSUME NEW v \in Writers, WriterOK(v),
         pc'[v] = pc[v], req'[v] = req[v], sid'[v] = sid[v], at'[v] = at[v],
         sent'[v] = sent[v], reply'[v] = reply[v], landed'[v] = landed[v],
         v \in shared => v \in shared',
         sid[v] \in bad => sid[v] \in bad',
         Has(v) /\ v \notin shared' => position'[sid[v]] = position[sid[v]],
         Has(v) /\ req[v].kind = "auto" /\ sid[v] \in inUse => sid[v] \in inUse'
  PROVE  WriterOK(v)'
<1>1. HoldsOK(v)'
  BY DEF WriterOK, HoldsOK, Has
<1>2. Has(v)' = Has(v)
  BY DEF Has
<1>3. pc[v] \in {"check", "chunk", "write"} => Has(v)
  BY DEF WriterOK, HoldsOK
<1>4. PositionOK(v)'
  BY <1>3 DEF WriterOK, PositionOK
<1>5. Written(v)' = Written(v)
  BY DEF Written
<1>6. \A c, k : FailedIn(v, c, k)' = FailedIn(v, c, k)
  BY <1>5 DEF FailedIn, Multiple
<1>7. BeginningOK(v)'
  <2>1. /\ pc'[v] \in {"idle", "pick", "check"} => sent'[v] = 0 /\ landed'[v] = {}
        /\ pc'[v] \in {"chunk", "write"} => sent'[v] = req'[v].bytes \/ Multiple(sent'[v])
        /\ pc'[v] = "write" => sent'[v] < req'[v].bytes
        /\ reply'[v] = "ok" => pc'[v] = "sent" /\ sent'[v] = req'[v].bytes
    BY DEF WriterOK, BeginningOK
  <2>2. CASE Written(v) = 0 .. sent[v] - 1
    BY <1>5, <2>1, <2>2 DEF BeginningOK, Multiple
  <2>3. CASE /\ pc[v] # "write" /\ sid[v] \in bad
             /\ \E c, k \in Nat : FailedIn(v, c, k)
    <3>1. pc'[v] # "write" /\ sid'[v] \in bad'
      BY <2>3 DEF WriterOK, BeginningOK, Has
    <3> QED
      BY <1>6, <2>1, <2>3, <3>1 DEF BeginningOK, Multiple
  <2> QED
    BY <2>2, <2>3 DEF WriterOK, BeginningOK
<1> QED
  BY <1>1, <1>4, <1>7 DEF WriterOK

\* The parts of IInv.
LEMMA Together ==
  ASSUME IInv, NEW w \in Writers, TypeOK', Unshared', WriterOK(w)',
         \A v \in Writers \ {w} : WriterOK(v)'
  PROVE  IInv'
BY DEF IInv

\* Steps that leave the streams of the writes, and who shares them, alone.
LEMMA SameStreams ==
  ASSUME Unshared, UNCHANGED <<sid, shared>>, UNCHANGED req
  PROVE  Unshared'
BY DEF Unshared, Has

LEMMA StartOK ==
  ASSUME IInv, NEW w \in Writers, Start(w)
  PROVE  IInv'
<1> USE DEF Start, Goto, IInv
<1>1. PICK r \in Requests : req' = [req EXCEPT ![w] = r]
  OBVIOUS
<1>2. /\ req'[w] = r /\ pc'[w] = "pick"
      /\ \A v \in Writers \ {w} : req'[v] = req[v] /\ pc'[v] = pc[v]
  BY <1>1 DEF TypeOK
<1>3. ~Has(w) /\ sent[w] = 0 /\ landed[w] = {}
  BY DEF WriterOK, HoldsOK, BeginningOK
<1>4. TypeOK'
  <2>1. req' \in [Writers -> Requests \cup {NoRequest}]
    BY <1>1 DEF TypeOK
  <2>2. pc' \in [Writers -> {"idle", "pick", "check", "chunk", "write", "sent"}]
    BY DEF TypeOK
  <2>3. \A v \in Writers : sent'[v] <= req'[v].bytes
    <3>1. r.bytes \in Nat
      BY ConstantsAssumption DEF Requests
    <3> QED
      BY <1>2, <1>3, <3>1 DEF TypeOK
  <2>4. \A v \in Writers : \A b \in landed'[v] : b[2] < req'[v].bytes
    BY <1>2, <1>3 DEF TypeOK
  <2> QED
    BY <2>1, <2>2, <2>3, <2>4 DEF TypeOK, streamVars
<1>5. Unshared'
  BY <1>2, <1>3 DEF Unshared, Has
<1>6. WriterOK(w)'
  <2>1. HoldsOK(w)'
    BY <1>2, <1>3 DEF HoldsOK, Has
  <2>2. PositionOK(w)'
    BY <1>2, <1>3 DEF PositionOK
  <2>3. Written(w)' = 0 .. sent'[w] - 1
    BY <1>3 DEF Written
  <2>4. reply'[w] # "ok"
    BY DEF WriterOK, BeginningOK
  <2> QED
    BY <1>2, <1>3, <2>1, <2>2, <2>3, <2>4 DEF WriterOK, BeginningOK
<1>7. \A v \in Writers \ {w} : WriterOK(v)'
  BY <1>2, OtherOK DEF streamVars
<1> QED
  BY <1>4, <1>5, <1>6, <1>7, Together

\* A write gets stream s, which nobody has that found it free.
LEMMA UseOK ==
  ASSUME IInv, NEW w \in Writers, NEW s \in Sinks, pc[w] = "pick", Use(w, s), Goto(w, "check"),
         UNCHANGED <<position, req, at, sent, landed>>,
         req[w].kind = "plain" => s = w,
         req[w].kind # "plain" => s \in Streams,
         req[w].kind = "auto" => s \notin inUse /\ s \in inUse',
         inUse' \subseteq Streams, inUse \subseteq inUse',
         bad' \subseteq Sinks, bad \subseteq bad'
  PROVE  IInv'
<1> USE DEF IInv
<1>1. /\ sid'[w] = s /\ \A v \in Writers \ {w} : sid'[v] = sid[v]
      /\ pc'[w] = "check" /\ \A v \in Writers \ {w} : pc'[v] = pc[v]
      /\ reply' = reply
  BY DEF Use, Goto, TypeOK
<1>2. ~Has(w) /\ sent[w] = 0 /\ landed[w] = {} /\ req[w] \in Requests
  BY DEF WriterOK, HoldsOK, BeginningOK
<1>3. s # NoStream /\ Streams \cap Writers = {}
  BY ConstantsAssumption DEF Sinks, Streams
<1>4. shared \subseteq shared' /\ shared' \subseteq Writers
  BY DEF Use, TypeOK
<1>5. ASSUME NEW v \in Writers \ {w}, sid[v] = s
      PROVE  v \in shared' /\ w \in shared' /\ "index" \in {req[v].kind, req[w].kind}
  <2>1. Has(v)
    BY <1>3, <1>5 DEF Has
  <2>2. req[v] \in Requests /\ req[v].kind \in {"auto", "index", "plain"}
    BY <2>1, ConstantsAssumption DEF WriterOK, HoldsOK, Has, Requests
  <2>3. req[w].kind \in {"auto", "index", "plain"}
    BY <1>2, ConstantsAssumption DEF Requests
  <2>4. "index" \in {req[v].kind, req[w].kind}
    BY <1>3, <1>5, <2>1, <2>2, <2>3 DEF WriterOK, HoldsOK
  <2> QED
    BY <1>5, <2>4 DEF Use
<1>6. TypeOK'
  BY <1>1, <1>4 DEF TypeOK, Use, Goto
<1>7. Unshared'
  <2>1. \A v, u \in Writers \ {w} : v # u /\ Has(v)' /\ sid'[v] = sid'[u] =>
          /\ v \in shared' /\ u \in shared'
          /\ "index" \in {req'[v].kind, req'[u].kind}
    BY <1>1, <1>4 DEF Unshared, Has
  <2>2. \A v \in Writers \ {w} : sid'[v] = sid'[w] =>
          /\ v \in shared' /\ w \in shared'
          /\ "index" \in {req'[v].kind, req'[w].kind}
    BY <1>1, <1>5
  <2> QED
    BY <2>1, <2>2 DEF Unshared
<1>8. WriterOK(w)'
  <2>1. HoldsOK(w)'
    BY <1>1, <1>2, <1>3 DEF HoldsOK, Has
  <2>2. PositionOK(w)'
    BY <1>1, <1>2 DEF PositionOK
  <2>3. Written(w)' = 0 .. sent'[w] - 1
    BY <1>2 DEF Written
  <2>4. reply'[w] # "ok"
    BY <1>1 DEF WriterOK, BeginningOK
  <2> QED
    BY <1>1, <1>2, <2>1, <2>2, <2>3, <2>4 DEF WriterOK, BeginningOK
<1>9. \A v \in Writers \ {w} : WriterOK(v)'
  BY <1>1, <1>4, OtherOK
<1> QED
  BY <1>6, <1>7, <1>8, <1>9, Together

\* The stream of a write, and that of another that shares none.
LEMMA OwnStream ==
  ASSUME IInv, NEW w \in Writers, pc[w] \in {"check", "chunk", "write"}
  PROVE  /\ sid[w] \in Sinks /\ Has(w) /\ req[w] \in Requests
         /\ \A v \in Writers \ {w} : Has(v) /\ v \notin shared => sid[v] # sid[w]
BY DEF IInv, WriterOK, HoldsOK, Has, Unshared, TypeOK

\* The reply of a write that has nothing written yet, that fails, or that is
\* done; its stream is where it was or moved by seekp, or failed.
LEMMA SendOK ==
  ASSUME IInv, NEW w \in Writers, NEW status, Send(w, status),
         pc[w] \in {"pick", "check", "chunk"},
         status \in {"ok", "irods_error", "bad_request", "too_many_requests",
                     "internal_server_error"},
         status = "ok" => pc[w] = "chunk" /\ sent[w] = req[w].bytes,
         \/ UNCHANGED position
         \/ /\ pc[w] = "check"
            /\ \E o \in Nat : position' = [position EXCEPT ![sid[w]] = o],
         UNCHANGED <<inUse, req, sid, at, sent, landed, shared>>,
         bad' \subseteq Sinks, bad \subseteq bad'
  PROVE  IInv'
<1> USE DEF IInv
<1>1. /\ pc'[w] = "sent" /\ reply'[w] = status
      /\ \A v \in Writers \ {w} : pc'[v] = pc[v] /\ reply'[v] = reply[v]
  BY DEF Send, TypeOK
<1>2. TypeOK'
  <2>1. position' \in [Sinks -> Nat]
    BY DEF TypeOK
  <2> QED
    BY <2>1 DEF Send, TypeOK
<1>3. Unshared'
  BY SameStreams
<1>4. WriterOK(w)'
  <2>1. HoldsOK(w)'
    BY <1>1 DEF WriterOK, HoldsOK, Has
  <2>2. PositionOK(w)'
    <3>1. ASSUME NEW b \in landed[w], req[w].offset # NoOffset, w \notin shared
          PROVE  b[1] = req[w].offset + b[2]
      BY <3>1 DEF WriterOK, PositionOK
    <3> QED
      BY <1>1, <3>1 DEF PositionOK
  <2>3. Written(w)' = Written(w) /\ \A c, k : FailedIn(w, c, k)' = FailedIn(w, c, k)
    BY DEF Written, FailedIn, Multiple
  <2>4. \/ Written(w) = 0 .. sent[w] - 1
        \/ sid[w] \in bad' /\ \E c, k \in Nat : FailedIn(w, c, k)
    BY DEF WriterOK, BeginningOK
  <2>5. BeginningOK(w)'
    <3>1. \/ Written(w)' = 0 .. sent'[w] - 1
          \/ /\ pc'[w] # "write" /\ sid'[w] \in bad'
             /\ \E c, k \in Nat : FailedIn(w, c, k)'
      BY <1>1, <2>3, <2>4
    <3> QED
      BY <1>1, <3>1 DEF BeginningOK
  <2> QED
    BY <2>1, <2>2, <2>5 DEF WriterOK
<1>5. \A v \in Writers \ {w} : WriterOK(v)'
  <2> SUFFICES ASSUME NEW v \in Writers \ {w} PROVE WriterOK(v)'
    OBVIOUS
  <2>1. ASSUME Has(v), v \notin shared PROVE position'[sid[v]] = position[sid[v]]
    <3>1. CASE UNCHANGED position
      BY <3>1
    <3>2. CASE /\ pc[w] = "check"
               /\ \E o \in Nat : position' = [position EXCEPT ![sid[w]] = o]
      <4>1. sid[v] \in Sinks /\ sid[v] # sid[w]
        BY <2>1, <3>2, OwnStream DEF TypeOK, Has
      <4> QED
        BY <3>2, <4>1 DEF TypeOK
    <3> QED
      BY <3>1, <3>2
  <2> QED
    BY <1>1, <2>1, OtherOK
<1> QED
  BY <1>2, <1>3, <1>4, <1>5, Together

LEMMA PickOK ==
  ASSUME IInv, NEW w \in Writers, PickByIndex(w) \/ OpenPlain(w)
  PROVE  IInv'
<1>1. /\ UNCHANGED <<position, inUse, req, at, sent, landed>>
      /\ pc[w] = "pick"
  BY DEF PickByIndex, OpenPlain, streamVars
<1>2. inUse \subseteq Streams /\ bad \subseteq Sinks
  BY DEF IInv, TypeOK
<1>3. CASE PickByIndex(w)
  <2>1. req[w].kind = "index" /\ bad' = bad
    BY <1>3 DEF PickByIndex, streamVars
  <2>2. CASE Send(w, "bad_request") /\ UNCHANGED <<sid, shared>>
    BY <1>1, <1>2, <2>1, <2>2, SendOK
  <2>3. ASSUME NEW s \in Streams, Use(w, s), Goto(w, "check")
        PROVE  IInv'
    <3>1. s \in Sinks
      BY DEF Sinks
    <3> QED
      BY <1>1, <1>2, <2>1, <2>3, <3>1, UseOK
  <2> QED
    BY <1>3, <2>2, <2>3 DEF PickByIndex
<1>4. CASE OpenPlain(w)
  <2>1. Use(w, w) /\ w \in Sinks /\ req[w].kind = "plain" /\ Goto(w, "check")
    BY <1>4 DEF OpenPlain, Sinks
  <2>2. bad' \subseteq Sinks /\ bad \subseteq bad'
    BY <1>2, <1>4, <2>1 DEF OpenPlain
  <2> QED
    BY <1>1, <1>2, <2>1, <2>2, UseOK
<1> QED
  BY <1>3, <1>4

LEMMA PickFreeOK ==
  ASSUME IInv, NEW w \in Writers, PickFree(w)
  PROVE  IInv'
<1>1. /\ UNCHANGED <<position, bad, req, at, sent, landed>>
      /\ pc[w] = "pick" /\ req[w].kind = "auto"
      /\ inUse \subseteq Streams /\ bad \subseteq Sinks
  BY DEF PickFree, IInv, TypeOK
<1>2. CASE Send(w, "too_many_requests") /\ UNCHANGED <<inUse, sid, shared>>
  BY <1>1, <1>2, SendOK
<1>3. ASSUME NEW s \in Streams \ inUse, MarkInUse(s), Use(w, s), Goto(w, "check")
      PROVE  IInv'
  <2>1. inUse' = inUse \cup {s}
    BY <1>3 DEF MarkInUse
  <2> QED
    BY <1>1, <1>3, <2>1, UseOK DEF Sinks
<1> QED
  BY <1>2, <1>3 DEF PickFree

LEMMA AnswerOK ==
  ASSUME IInv, NEW w \in Writers, ClientFails(w) \/ Finish(w)
  PROVE  IInv'
<1>1. bad \subseteq Sinks
  BY DEF IInv, TypeOK
<1>2. CASE ClientFails(w)
  BY <1>1, <1>2, SendOK DEF ClientFails, streamVars
<1>3. CASE Finish(w)
  BY <1>1, <1>3, SendOK DEF Finish, streamVars
<1> QED
  BY <1>2, <1>3

\* The stream is in its place, and the first chunk may be written.
LEMMA SeekGoesOn ==
  ASSUME IInv, NEW w \in Writers, pc[w] = "check", Goto(w, "chunk"),
         UNCHANGED <<bad, inUse, req, sid, at, sent, landed, shared>>,
         \/ req[w].offset = NoOffset /\ UNCHANGED position
         \/ /\ req[w].offset \in Nat
            /\ position' = [position EXCEPT ![sid[w]] = req[w].offset]
  PROVE  IInv'
<1> USE DEF IInv
<1>1. /\ pc'[w] = "chunk" /\ reply' = reply
      /\ \A v \in Writers \ {w} : pc'[v] = pc[v]
  BY DEF Goto, TypeOK
<1>2. /\ sid[w] \in Sinks /\ Has(w)
      /\ \A v \in Writers \ {w} : Has(v) /\ v \notin shared => sid[v] # sid[w]
  BY OwnStream
<1>3. sent[w] = 0 /\ landed[w] = {} /\ reply[w] # "ok"
  BY DEF WriterOK, BeginningOK
<1>4. TypeOK'
  BY <1>2 DEF TypeOK, Goto
<1>5. Unshared'
  BY SameStreams
<1>6. WriterOK(w)'
  <2>1. HoldsOK(w)'
    BY <1>1, <1>2 DEF WriterOK, HoldsOK, Has
  <2>2. PositionOK(w)'
    <3>1. CASE req[w].offset = NoOffset
      BY <3>1 DEF PositionOK
    <3>2. CASE /\ req[w].offset \in Nat
               /\ position' = [position EXCEPT ![sid[w]] = req[w].offset]
      <4>1. position'[sid[w]] = req[w].offset
        BY <1>2, <3>2 DEF TypeOK
      <4> QED
        BY <1>1, <1>3, <3>2, <4>1 DEF PositionOK
    <3> QED
      BY <3>1, <3>2
  <2>3. Written(w)' = 0 .. sent'[w] - 1
    BY <1>3 DEF Written
  <2>4. Multiple(sent'[w])
    BY <1>3, ConstantsAssumption DEF Multiple
  <2> QED
    BY <1>1, <1>3, <2>1, <2>2, <2>3, <2>4 DEF WriterOK, BeginningOK
<1>7. \A v \in Writers \ {w} : WriterOK(v)'
  <2> SUFFICES ASSUME NEW v \in Writers \ {w} PROVE WriterOK(v)'
    OBVIOUS
  <2>1. ASSUME Has(v), v \notin shared PROVE position'[sid[v]] = position[sid[v]]
    <3>1. sid[v] \in Sinks /\ sid[v] # sid[w]
      BY <1>2, <2>1 DEF TypeOK, Has
    <3> QED
      BY <3>1 DEF TypeOK
  <2> QED
    BY <1>1, <2>1, OtherOK
<1> QED
  BY <1>4, <1>5, <1>6, <1>7, Together

LEMMA SeekOK ==
  ASSUME IInv, NEW w \in Writers, Seek(w)
  PROVE  IInv'
<1>1. /\ pc[w] = "check" /\ UNCHANGED <<inUse, req, sid, at, sent, landed, shared>>
      /\ sid[w] \in Sinks /\ bad \subseteq Sinks
  BY OwnStream DEF Seek, IInv, TypeOK
<1>2. CASE Send(w, "irods_error") /\ UNCHANGED <<position, bad>>
  BY <1>1, <1>2, SendOK
<1>3. CASE /\ Send(w, "bad_request") /\ UNCHANGED bad
           /\ \/ UNCHANGED position
              \/ /\ req[w].offset \in Nat
                 /\ position' = [position EXCEPT ![sid[w]] = req[w].offset]
  <2>1. \/ UNCHANGED position
        \/ \E o \in Nat : position' = [position EXCEPT ![sid[w]] = o]
    BY <1>3
  <2> QED
    BY <1>1, <1>3, <2>1, SendOK
<1>4. CASE Send(w, "irods_error") /\ bad' = bad \cup {sid[w]} /\ UNCHANGED position
  BY <1>1, <1>4, SendOK
<1>5. CASE /\ Goto(w, "chunk") /\ UNCHANGED bad
           /\ \/ req[w].offset = NoOffset /\ UNCHANGED position
              \/ /\ req[w].offset \in Nat
                 /\ position' = [position EXCEPT ![sid[w]] = req[w].offset]
  BY <1>1, <1>5, SeekGoesOn
<1> QED
  BY <1>2, <1>3, <1>4, <1>5 DEF Seek, Proceed

LEMMA BeginChunkOK ==
  ASSUME IInv, NEW w \in Writers, BeginChunk(w)
  PROVE  IInv'
<1> USE DEF IInv
<1>1. /\ pc[w] = "chunk" /\ sent[w] < req[w].bytes
      /\ UNCHANGED <<position, bad, inUse, req, sid, sent, landed, shared>>
      /\ sid[w] \in Sinks /\ Has(w) /\ bad \subseteq Sinks
  BY OwnStream DEF BeginChunk, streamVars, TypeOK
<1>2. CASE Send(w, "internal_server_error") /\ UNCHANGED at
  BY <1>1, <1>2, SendOK
<1>3. CASE Good(w) /\ at' = [at EXCEPT ![w] = position[sid[w]]] /\ Goto(w, "write")
  <2>1. /\ pc'[w] = "write" /\ at'[w] = position[sid[w]] /\ reply' = reply
        /\ \A v \in Writers \ {w} : pc'[v] = pc[v] /\ at'[v] = at[v]
    BY <1>3 DEF Goto, TypeOK
  <2>2. TypeOK'
    BY <1>1, <1>3 DEF TypeOK, Goto
  <2>3. WriterOK(w)'
    <3>1. HoldsOK(w)'
      BY <1>1, <2>1 DEF WriterOK, HoldsOK, Has
    <3>2. PositionOK(w)'
      BY <1>1, <1>3, <2>1 DEF WriterOK, PositionOK, Good
    <3>3. Written(w) = 0 .. sent[w] - 1
      BY <1>3 DEF WriterOK, BeginningOK, Good
    <3>4. Written(w)' = 0 .. sent'[w] - 1
      BY <1>1, <3>3 DEF Written
    <3>5. Multiple(sent[w]) /\ reply[w] # "ok"
      BY <1>1 DEF WriterOK, BeginningOK, TypeOK
    <3>6. Multiple(sent'[w])
      BY <1>1, <3>5
    <3>7. BeginningOK(w)'
      BY <1>1, <2>1, <3>4, <3>5, <3>6 DEF BeginningOK
    <3> QED
      BY <3>1, <3>2, <3>7 DEF WriterOK
  <2>4. \A v \in Writers \ {w} : WriterOK(v)'
    BY <1>1, <2>1, OtherOK
  <2> QED
    BY <1>1, <2>2, <2>3, <2>4, SameStreams, Together
<1> QED
  BY <1>2, <1>3 DEF BeginChunk

\* A chunk that is written whole moves the stream, and one that fails leaves a
\* part of it, and the stream in a bad state.
LEMMA EndChunkOK ==
  ASSUME IInv, NEW w \in Writers, EndChunk(w)
  PROVE  IInv'
<1> USE DEF IInv
<1> DEFINE m == Smaller(sent[w] + ChunkBytes, req[w].bytes)
<1>1. /\ pc[w] = "write" /\ UNCHANGED <<inUse, req, sid, shared>>
      /\ at' = [at EXCEPT ![w] = 0] /\ Goto(w, "chunk") /\ MoveOn(w)
  BY DEF EndChunk
<1>2. /\ sid[w] \in Sinks /\ Has(w) /\ req[w] \in Requests
      /\ \A v \in Writers \ {w} : Has(v) /\ v \notin shared => sid[v] # sid[w]
  BY <1>1, OwnStream
<1>3. /\ sent[w] < req[w].bytes /\ Multiple(sent[w]) /\ reply[w] # "ok"
      /\ Written(w) = 0 .. sent[w] - 1
  BY <1>1 DEF WriterOK, BeginningOK, TypeOK
<1>4. /\ sent[w] \in Nat /\ req[w].bytes \in Nat /\ at[w] \in Nat
      /\ m \in Nat /\ sent[w] < m /\ m <= req[w].bytes
      /\ Chunk(w) = sent[w] .. m - 1 /\ Cardinality(Chunk(w)) = m - sent[w]
  <2>1. sent[w] \in Nat /\ req[w].bytes \in Nat /\ at[w] \in Nat
    BY <1>2, ConstantsAssumption DEF TypeOK, Requests
  <2>2. /\ m \in Nat /\ sent[w] < m /\ m <= req[w].bytes
        /\ Chunk(w) = sent[w] .. m - 1 /\ Cardinality(Chunk(w)) = m - sent[w]
    BY <1>2, <1>3, ChunkSize
  <2> QED
    BY <2>1, <2>2
<1>5. m = req[w].bytes \/ Multiple(m)
  BY <1>3, <1>4, NextMultiple DEF Smaller
<1> HIDE DEF m
<1>6. /\ sent' = [sent EXCEPT ![w] = m] /\ sent'[w] = m /\ at'[w] = 0 /\ pc'[w] = "chunk"
      /\ reply' = reply
      /\ \A v \in Writers \ {w} :
           sent'[v] = sent[v] /\ at'[v] = at[v] /\ pc'[v] = pc[v]
  <2>1. sent' = [sent EXCEPT ![w] = m]
    <3>1. sent[w] + Cardinality(Chunk(w)) = m
      BY <1>4
    <3>2. sent' = [sent EXCEPT ![w] = sent[w] + Cardinality(Chunk(w))]
      BY <1>1 DEF MoveOn
    <3> QED
      BY <3>1, <3>2
  <2> QED
    BY <1>1, <2>1 DEF Goto, TypeOK
<1>7. PICK n \in Nat :
        /\ Land(w, n)
        /\ \/ /\ n = req[w].bytes /\ UNCHANGED bad
              /\ position' = [position EXCEPT ![sid[w]] = at[w] + (m - sent[w])]
           \/ n \in sent[w] .. m - 1 /\ bad' = bad \cup {sid[w]} /\ UNCHANGED position
  <2>1. CASE /\ Land(w, req[w].bytes) /\ UNCHANGED bad
             /\ position' = [position EXCEPT ![sid[w]] = at[w] + Cardinality(Chunk(w))]
    BY <1>4, <2>1
  <2>2. CASE /\ \E n \in Chunk(w) : Land(w, n)
             /\ bad' = bad \cup {sid[w]} /\ UNCHANGED position
    BY <1>4, <2>2
  <2> QED
    BY <2>1, <2>2 DEF EndChunk
<1>8. /\ Written(w)' = (0 .. sent[w] - 1) \cup {j \in sent[w] .. m - 1 : j < n}
      /\ \A b \in landed'[w] :
           b \in landed[w] \/ \E i \in sent[w] .. m - 1 : b = <<at[w] + i - sent[w], i>>
      /\ \A v \in Writers \ {w} : landed'[v] = landed[v]
  <2>1. Land(w, n)
    BY <1>7
  <2> QED
    BY <1>3, <1>4, <2>1, LandWrites
<1>9. TypeOK'
  <2>1. position' \in [Sinks -> Nat] /\ bad' \subseteq Sinks
    BY <1>2, <1>4, <1>7 DEF TypeOK
  <2>2. \A b \in landed'[w] : b \in Nat \X Nat /\ b[2] < req[w].bytes
    BY <1>4, <1>8 DEF TypeOK
  <2>3. landed' \in [Writers -> SUBSET (Nat \X Nat)]
    <3>1. landed' = [v \in Writers |-> landed'[v]]
      BY <1>7 DEF Land, TypeOK
    <3>2. \A v \in Writers : landed'[v] \in SUBSET (Nat \X Nat)
      BY <1>8, <2>2 DEF TypeOK
    <3> QED
      BY <3>1, <3>2
  <2>4. \A v \in Writers : \A b \in landed'[v] : b[2] < req'[v].bytes
    BY <1>1, <1>8, <2>2 DEF TypeOK
  <2>5. sent' \in [Writers -> Nat] /\ \A v \in Writers : sent'[v] <= req'[v].bytes
    BY <1>1, <1>4, <1>6 DEF TypeOK
  <2>6. at' \in [Writers -> Nat]
    BY <1>1 DEF TypeOK
  <2> QED
    BY <1>1, <2>1, <2>3, <2>4, <2>5, <2>6 DEF TypeOK, Goto
<1>10. WriterOK(w)'
  <2>1. HoldsOK(w)'
    BY <1>1, <1>2, <1>6 DEF WriterOK, HoldsOK, Has
  <2>2. PositionOK(w)'
    <3> SUFFICES ASSUME req[w].offset # NoOffset
                 PROVE  /\ req[w].offset \in Nat
                        /\ w \notin shared =>
                             /\ sid[w] \notin bad' =>
                                  position'[sid[w]] = req[w].offset + m
                             /\ \A b \in landed'[w] : b[1] = req[w].offset + b[2]
      BY <1>1, <1>6 DEF PositionOK
    <3>1. req[w].offset \in Nat
      BY <1>1 DEF WriterOK, PositionOK
    <3>2. ASSUME w \notin shared
          PROVE  /\ at[w] = req[w].offset + sent[w]
                 /\ \A b \in landed[w] : b[1] = req[w].offset + b[2]
      BY <1>1, <3>2 DEF WriterOK, PositionOK
    <3>3. ASSUME w \notin shared, sid[w] \notin bad'
          PROVE  position'[sid[w]] = req[w].offset + m
      <4>1. position' = [position EXCEPT ![sid[w]] = at[w] + (m - sent[w])]
        BY <1>7, <3>3
      <4>2. position'[sid[w]] = at[w] + (m - sent[w])
        BY <1>2, <4>1 DEF TypeOK
      <4> QED
        BY <1>4, <3>1, <3>2, <3>3, <4>2
    <3>4. ASSUME w \notin shared, NEW b \in landed'[w]
          PROVE  b[1] = req[w].offset + b[2]
      <4>1. CASE b \in landed[w]
        BY <3>2, <3>4, <4>1
      <4>2. ASSUME NEW i \in sent[w] .. m - 1, b = <<at[w] + i - sent[w], i>>
            PROVE  b[1] = req[w].offset + b[2]
        <5>1. b[1] = at[w] + i - sent[w] /\ b[2] = i /\ i \in Int
          BY <1>4, <4>2
        <5> QED
          BY <1>4, <3>1, <3>2, <3>4, <5>1
      <4> QED
        BY <1>8, <3>4, <4>1, <4>2
    <3> QED
      BY <3>1, <3>3, <3>4
  <2>3. CASE n = req[w].bytes
    <3>1. Written(w)' = 0 .. m - 1
      BY <1>4, <1>8, <2>3
    <3>2. Written(w)' = 0 .. sent'[w] - 1
      BY <1>6, <3>1
    <3>3. sent'[w] = req'[w].bytes \/ Multiple(sent'[w])
      BY <1>1, <1>5, <1>6
    <3>4. BeginningOK(w)'
      BY <1>3, <1>6, <3>2, <3>3 DEF BeginningOK
    <3> QED
      BY <2>1, <2>2, <3>4 DEF WriterOK
  <2>4. CASE n \in sent[w] .. m - 1 /\ bad' = bad \cup {sid[w]}
    <3>1. Written(w)' = 0 .. n - 1
      BY <1>4, <1>8, <2>4
    <3>2. PICK c \in Nat : c = sent[w]
      BY <1>4
    <3>3. FailedIn(w, c, n)'
      <4>1. c < req'[w].bytes /\ c <= n /\ Multiple(c)
        BY <1>1, <1>3, <2>4, <1>4, <3>2
      <4>2. sent'[w] = Smaller(c + ChunkBytes, req'[w].bytes)
        BY <1>1, <1>6, <3>2 DEF m
      <4> QED
        BY <3>1, <4>1, <4>2 DEF FailedIn
    <3>4. sent'[w] = req'[w].bytes \/ Multiple(sent'[w])
      BY <1>1, <1>5, <1>6
    <3>5. sid'[w] \in bad'
      BY <1>1, <2>4
    <3>6. \E b, k \in Nat : FailedIn(w, b, k)'
      BY <3>3
    <3>7. BeginningOK(w)'
      BY <1>3, <1>6, <3>4, <3>5, <3>6 DEF BeginningOK
    <3> QED
      BY <2>1, <2>2, <3>7 DEF WriterOK
  <2> QED
    BY <1>7, <2>3, <2>4
<1>11. \A v \in Writers \ {w} : WriterOK(v)'
  <2> SUFFICES ASSUME NEW v \in Writers \ {w} PROVE WriterOK(v)'
    OBVIOUS
  <2>1. ASSUME Has(v), v \notin shared PROVE position'[sid[v]] = position[sid[v]]
    <3>1. sid[v] \in Sinks /\ sid[v] # sid[w]
      BY <1>2, <2>1 DEF TypeOK, Has
    <3> QED
      BY <1>7, <3>1 DEF TypeOK
  <2>2. bad \subseteq bad'
    BY <1>7
  <2> QED
    BY <1>1, <1>6, <1>8, <2>1, <2>2, OtherOK
<1> QED
  BY <1>1, <1>9, <1>10, <1>11, SameStreams, Together

\* The write is forgotten, and its stream, if it is its own.
LEMMA ReleaseOK ==
  ASSUME IInv, NEW w \in Writers, Release(w)
  PROVE  IInv'
<1> USE DEF IInv
<1>1. /\ pc'[w] = "idle" /\ sid'[w] = NoStream /\ req'[w] = NoRequest
      /\ sent'[w] = 0 /\ landed'[w] = {} /\ reply'[w] = "none"
      /\ \A v \in Writers \ {w} :
           /\ pc'[v] = pc[v] /\ sid'[v] = sid[v] /\ req'[v] = req[v]
           /\ sent'[v] = sent[v] /\ landed'[v] = landed[v] /\ reply'[v] = reply[v]
      /\ at' = at /\ shared' = shared \ {w} /\ bad' = bad \ {w}
  BY DEF Release, TypeOK
<1>2. TypeOK'
  <2>1. position' \in [Sinks -> Nat] /\ bad' \subseteq Sinks /\ inUse' \subseteq Streams
    BY DEF Release, TypeOK
  <2>2. landed' \in [Writers -> SUBSET (Nat \X Nat)]
    BY DEF Release, TypeOK
  <2>3. /\ req' \in [Writers -> Requests \cup {NoRequest}]
        /\ sid' \in [Writers -> Sinks \cup {NoStream}]
        /\ sent' \in [Writers -> Nat]
        /\ shared' \subseteq Writers
    BY DEF Release, TypeOK
  <2>4. /\ pc' \in [Writers -> {"idle", "pick", "check", "chunk", "write", "sent"}]
        /\ reply' \in [Writers -> {"none", "ok", "irods_error", "bad_request",
                                   "too_many_requests", "internal_server_error"}]
    BY DEF Release, TypeOK
  <2>5. \A v \in Writers : sent'[v] <= req'[v].bytes
    BY <1>1 DEF TypeOK, NoRequest
  <2>6. \A v \in Writers : \A b \in landed'[v] : b[2] < req'[v].bytes
    BY <1>1 DEF TypeOK
  <2> QED
    BY <1>1, <2>1, <2>2, <2>3, <2>4, <2>5, <2>6 DEF TypeOK
<1>3. Unshared'
  BY <1>1 DEF Unshared, Has
<1>4. WriterOK(w)'
  <2>1. HoldsOK(w)' /\ PositionOK(w)'
    BY <1>1 DEF HoldsOK, PositionOK, Has, NoRequest
  <2>2. Written(w)' = 0 .. sent'[w] - 1
    BY <1>1 DEF Written
  <2> QED
    BY <1>1, <2>1, <2>2 DEF WriterOK, BeginningOK
<1>5. \A v \in Writers \ {w} : WriterOK(v)'
  <2> SUFFICES ASSUME NEW v \in Writers \ {w} PROVE WriterOK(v)'
    OBVIOUS
  <2>1. Has(v) => sid[v] # w
    BY ConstantsAssumption DEF WriterOK, HoldsOK, Streams
  <2>2. sid[v] # w
    BY <2>1, ConstantsAssumption DEF Has
  <2>3. sid[v] \in bad => sid[v] \in bad'
    BY <1>1, <2>2
  <2>4. Has(v) => position'[sid[v]] = position[sid[v]]
    BY <2>2 DEF Release, TypeOK, Has
  <2>5. Has(v) /\ req[v].kind = "auto" /\ sid[v] \in inUse => sid[v] \in inUse'
    BY DEF Release, Unshared
  <2> QED
    BY <1>1, <2>3, <2>4, <2>5, OtherOK
<1> QED
  BY <1>2, <1>3, <1>4, <1>5, Together

LEMMA InitOK == Init => IInv
<1> SUFFICES ASSUME Init PROVE IInv
  OBVIOUS
<1> USE DEF Init
<1>1. TypeOK
  BY DEF TypeOK, NoRequest, Sinks
<1>2. Unshared
  BY DEF Unshared, Has
<1>3. ASSUME NEW w \in Writers PROVE WriterOK(w)
  <2>1. HoldsOK(w) /\ PositionOK(w)
    BY DEF HoldsOK, PositionOK, Has, NoRequest
  <2>2. Written(w) = 0 .. sent[w] - 1
    BY DEF Written
  <2> QED
    BY <2>1, <2>2 DEF WriterOK, BeginningOK
<1> QED
  BY <1>1, <1>2, <1>3 DEF IInv

\* The inductive invariant is one.
THEOREM Inductive == Spec => []IInv
<1>1. IInv /\ [Next]_vars => IInv'
  <2> SUFFICES ASSUME IInv, [Next]_vars PROVE IInv'
    OBVIOUS
  <2>1. CASE UNCHANGED vars
    <3>1. Unshared'
      BY <2>1, SameStreams DEF IInv, vars
    <3>2. TypeOK'
      BY <2>1 DEF IInv, TypeOK, vars, streamVars
    <3>3. \A v \in Writers : WriterOK(v)'
      BY <2>1, OtherOK DEF IInv, vars, streamVars
    <3> QED
      BY <3>1, <3>2, <3>3 DEF IInv
  <2>2. CASE Next
    BY <2>2, StartOK, PickFreeOK, PickOK, SeekOK, BeginChunkOK, EndChunkOK, AnswerOK,
       ReleaseOK DEF Next
  <2> QED
    BY <2>1, <2>2
<1> QED
  BY InitOK, <1>1, PTL DEF Spec

-----------------------------------------------------------------------------
(* What follows from it *)

\* Every variable keeps its type; a write never gives its stream more bytes
\* than it has.
THEOREM TypeCorrect == Spec => []TypeOK
<1>1. IInv => TypeOK
  BY DEF IInv
<1> QED
  BY <1>1, Inductive, PTL

\* Whatever the writes do between one another's chunks, a write with an offset
\* puts each byte where it says, unless a client has named its stream.
THEOREM BytesLandAtTheirOffset == Spec => []LandsAtItsOffset
<1>1. IInv => LandsAtItsOffset
  BY DEF IInv, WriterOK, PositionOK, LandsAtItsOffset
<1> QED
  BY <1>1, Inductive, PTL

\* Nothing is written after a chunk that failed, and a write that is answered
\* ok lacks bytes of its last chunk only: nothing looks at the stream after it.
THEOREM ABeginningIsWritten == Spec => []WritesABeginning
<1>1. ASSUME IInv, NEW w \in Writers
      PROVE  /\ \A i \in Written(w) : 0 .. i - 1 \subseteq Written(w)
             /\ reply[w] = "ok" =>
                  \A i \in 0 .. req[w].bytes - 1 :
                    \/ i \in Written(w)
                    \/ i >= ((req[w].bytes - 1) \div ChunkBytes) * ChunkBytes
  <2>1. sent[w] \in Nat /\ (reply[w] = "ok" => sent[w] = req[w].bytes)
    BY <1>1 DEF IInv, TypeOK, WriterOK, BeginningOK
  <2>2. CASE Written(w) = 0 .. sent[w] - 1
    BY <2>1, <2>2
  <2>3. CASE \E c, k \in Nat : FailedIn(w, c, k)
    <3>1. PICK c, k \in Nat : FailedIn(w, c, k)
      BY <2>3
    <3>2. Written(w) = 0 .. k - 1 /\ c <= k /\ Multiple(c) /\ c < req[w].bytes
      BY <3>1 DEF FailedIn
    <3>3. ASSUME reply[w] = "ok"
          PROVE  ((req[w].bytes - 1) \div ChunkBytes) * ChunkBytes <= c
      <4>1. req[w].bytes \in Nat \ {0} /\ ChunkBytes \in Nat
        BY <2>1, <3>2, <3>3, ConstantsAssumption
      <4>2. req[w].bytes <= c + ChunkBytes
        BY <2>1, <3>1, <3>3, <4>1 DEF FailedIn, Smaller
      <4> QED
        BY <3>2, <4>1, <4>2, LastChunk
    <3>4. ASSUME reply[w] = "ok", NEW i \in 0 .. req[w].bytes - 1, i \notin Written(w)
          PROVE  i >= ((req[w].bytes - 1) \div ChunkBytes) * ChunkBytes
      <4> DEFINE last == ((req[w].bytes - 1) \div ChunkBytes) * ChunkBytes
      <4>1. last \in Int
        BY <2>1, <3>4, ConstantsAssumption
      <4>2. last <= c
        BY <3>3, <3>4
      <4>3. i \in Int /\ i >= k
        BY <2>1, <3>2, <3>4
      <4> HIDE DEF last
      <4>4. i >= last
        BY <3>2, <4>1, <4>2, <4>3
      <4> QED
        BY <4>4 DEF last
    <3> QED
      BY <3>2, <3>4
  <2> QED
    BY <1>1, <2>2, <2>3 DEF IInv, WriterOK, BeginningOK
<1>2. IInv => WritesABeginning
  BY <1>1 DEF WritesABeginning
<1> QED
  BY <1>2, Inductive, PTL
=============================================================================
