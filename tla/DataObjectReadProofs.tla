------------------------ MODULE DataObjectReadProofs ------------------------
(***************************************************************************)
(* Safety of reads, for every size of the object and of the buffer, every  *)
(* range asked for and every number of changes while the read runs.        *)
(***************************************************************************)
EXTENDS DataObjectRead, SequenceTheorems, TLAPS

\* The places of a read by what was checked on the way to them.
Counted == {"dedicate", "open", "seek", "read", "header", "chunk"}

Checked == Counted \cup {"size"}

\* What the object has was seen.
SeenOK == Placed(object) \subseteq seen

\* Nothing is sent before the transfer, and what is sent and what remains are
\* the range.  A reply is given once.
ProgressOK ==
  /\ place \notin {"chunk", "done"} => got = <<>>
  /\ place \in Counted => Len(got) + count = wanted
  /\ place \in {"header", "chunk"} => count >= 0
  /\ place \in Checked => asked.offset >= 0
  /\ place # "done" => answer \in {"none", "begun"}

\* The ticket stays enabled until the read may get another connection.
TicketOK ==
  /\ place \in {"status", "size", "dedicate"} => enabled = asked.ticket
  /\ place = "dedicate" => wanted > Buffer
  /\ place = "open" /\ asked.ticket => enabled \/ (~compat /\ wanted > Buffer)

\* The inductive invariant.
IInv ==
  /\ RTypeOK
  /\ SeenOK
  /\ ProgressOK
  /\ TicketOK
  /\ ReplyIsTheRange
  /\ OnlyLargeReadsLoseTickets

-----------------------------------------------------------------------------
(* The range *)

\* A function on 1 .. n is a sequence of length n.
LEMMA FunctionIsSeq ==
  ASSUME NEW S, NEW n \in Nat, NEW f \in [1 .. n -> S]
  PROVE  f \in Seq(S) /\ Len(f) = n
<1>1. f \in Seq(S)
  BY SeqDef
<1>2. Len(f) \in Nat /\ DOMAIN f = 1 .. Len(f)
  BY <1>1
<1>3. 1 .. n = 1 .. Len(f)
  BY <1>2
<1>4. Len(f) = n
  BY <1>2, <1>3
<1> QED
  BY <1>1, <1>4

\* The n elements behind position m.
LEMMA SubSeqIsThere ==
  ASSUME NEW S, NEW s, NEW m \in Nat, NEW n \in Nat,
         \A i \in m + 1 .. m + n : s[i] \in S
  PROVE  /\ SubSeq(s, m + 1, m + n) \in Seq(S)
         /\ Len(SubSeq(s, m + 1, m + n)) = n
         /\ \A k \in 1 .. n : SubSeq(s, m + 1, m + n)[k] = s[m + k]
<1>1. SubSeq(s, m + 1, m + n) \in Seq(S)
  OBVIOUS
<1>2. Len(SubSeq(s, m + 1, m + n)) = n
  OBVIOUS
<1>3. \A k \in 1 .. n : SubSeq(s, m + 1, m + n)[k] = s[m + k]
  OBVIOUS
<1> QED
  BY <1>1, <1>2, <1>3

\* A position of the object was seen with its byte.
LEMMA ObjectIsSeen ==
  ASSUME SeenOK, NEW i \in DOMAIN object
  PROVE  <<i, object[i]>> \in seen
BY DEF SeenOK, Placed

\* What Take(n) appends are the n bytes of the object at the position of the
\* stream.
LEMMA TakeAppends ==
  ASSUME NEW S, object \in Seq(S), got \in Seq(S),
         asked.offset \in Nat, NEW n \in Nat,
         n = 0 \/ Position + n <= Len(object),
         Take(n)
  PROVE  /\ got' \in Seq(S) /\ Len(got') = Len(got) + n
         /\ \A i \in 1 .. Len(got) : got'[i] = got[i]
         /\ \A i \in Len(got) + 1 .. Len(got) + n :
              /\ asked.offset + i \in DOMAIN object
              /\ got'[i] = object[asked.offset + i]
<1> DEFINE p == Position
           taken == SubSeq(object, p + 1, p + n)
<1>1. p = asked.offset + Len(got) /\ p \in Nat /\ Len(got) \in Nat
  BY DEF Position
<1>2. /\ taken \in Seq(S) /\ Len(taken) = n
      /\ \A k \in 1 .. n : taken[k] = object[p + k] /\ p + k \in DOMAIN object
  <2> HIDE DEF p
  <2>1. \A i \in p + 1 .. p + n : i \in DOMAIN object /\ object[i] \in S
    <3>1. n = 0 \/ p + n <= Len(object)
      BY DEF p
    <3> QED
      BY <1>1, <3>1
  <2>2. \A i \in p + 1 .. p + n : object[i] \in S
    BY <2>1
  <2>3. /\ taken \in Seq(S) /\ Len(taken) = n
        /\ \A k \in 1 .. n : taken[k] = object[p + k]
    <3>1. p \in Nat
      BY <1>1
    <3> QED
      BY <2>2, <3>1, SubSeqIsThere
  <2>4. \A k \in 1 .. n : p + k \in p + 1 .. p + n
    BY <1>1
  <2> QED
    BY <2>1, <2>3, <2>4
<1>3. got' = got \o taken
  BY DEF Take
<1> HIDE DEF p, taken
<1>4. got' \in Seq(S) /\ Len(got') = Len(got) + n
  BY <1>2, <1>3, ConcatProperties, Zenon
<1>5. /\ \A i \in 1 .. Len(got) : got'[i] = got[i]
      /\ \A k \in 1 .. n : got'[Len(got) + k] = taken[k]
  <2>1. \A i \in 1 .. Len(got) + Len(taken) :
          (got \o taken)[i] = IF i <= Len(got) THEN got[i] ELSE taken[i - Len(got)]
    BY <1>2, ConcatProperties, Zenon
  <2>2. Len(taken) = n
    BY <1>2
  <2> QED
    BY <1>1, <1>3, <2>1, <2>2
<1>6. ASSUME NEW i \in Len(got) + 1 .. Len(got) + n
      PROVE  /\ asked.offset + i \in DOMAIN object
             /\ got'[i] = object[asked.offset + i]
  <2>1. PICK k \in 1 .. n : i = Len(got) + k
    <3>1. i - Len(got) \in 1 .. n /\ i = Len(got) + (i - Len(got))
      BY <1>1
    <3> QED
      BY <3>1
  <2>2. got'[i] = taken[k]
    BY <1>5, <2>1
  <2>3. p + k = asked.offset + i
    BY <1>1, <2>1
  <2> QED
    BY <1>2, <2>2, <2>3
<1> QED
  BY <1>4, <1>5, <1>6

\* Bytes that are there are sent as the range.
LEMMA TakeSendsTheRange ==
  ASSUME IInv, place \in {"read", "chunk"}, NEW n \in Nat, Finds(n), Take(n)
  PROVE  /\ got' \in Seq(0 .. changes) /\ Len(got') <= MaxSize
         /\ Len(got') = Len(got) + n
         /\ \A i \in DOMAIN got' : <<asked.offset + i, got'[i]>> \in seen
<1>1. object \in Seq(0 .. changes) /\ got \in Seq(0 .. changes)
  BY DEF IInv, RTypeOK
<1>2. asked.offset \in Nat
  BY DEF IInv, RTypeOK, ProgressOK, Checked, Counted, Reads
<1>3. n = 0 \/ Position + n <= Len(object)
  BY DEF Finds
<1>4. /\ got' \in Seq(0 .. changes) /\ Len(got') = Len(got) + n
      /\ \A i \in 1 .. Len(got) : got'[i] = got[i]
      /\ \A i \in Len(got) + 1 .. Len(got) + n :
           /\ asked.offset + i \in DOMAIN object
           /\ got'[i] = object[asked.offset + i]
  BY <1>1, <1>2, <1>3, TakeAppends
<1>5. Len(got') <= MaxSize
  <2>1. Len(object) <= MaxSize /\ Len(got) <= MaxSize
    BY DEF IInv, RTypeOK
  <2> QED
    BY <1>1, <1>2, <1>3, <1>4, <2>1, ReadAssumption DEF Position
<1>6. ASSUME NEW i \in DOMAIN got'
      PROVE  <<asked.offset + i, got'[i]>> \in seen
  <2>1. i \in 1 .. Len(got) \/ i \in Len(got) + 1 .. Len(got) + n
    BY <1>1, <1>4
  <2>2. CASE i \in 1 .. Len(got)
    <3>1. i \in DOMAIN got
      BY <1>1, <2>2
    <3> QED
      BY <1>4, <2>2, <3>1 DEF IInv, ReplyIsTheRange
  <2>3. CASE i \in Len(got) + 1 .. Len(got) + n
    BY <1>4, <2>3, ObjectIsSeen DEF IInv
  <2> QED
    BY <2>1, <2>2, <2>3
<1> QED
  BY <1>4, <1>5, <1>6

-----------------------------------------------------------------------------
(* The actions *)

LEMMA InitOK == RInit => IInv
<1> SUFFICES ASSUME RInit PROVE IInv
  OBVIOUS
<1> USE ReadAssumption DEF RInit
<1>1. RTypeOK
  <2>1. object \in Seq(0 .. changes) /\ Len(object) <= MaxSize
    <3>1. PICK n \in 0 .. MaxSize : object = [i \in 1 .. n |-> 0]
      OBVIOUS
    <3>2. object \in [1 .. n -> 0 .. changes] /\ n \in Nat
      BY <3>1
    <3> QED
      BY <3>2, FunctionIsSeq
  <2>2. got \in Seq(0 .. changes) /\ Len(got) = 0
    OBVIOUS
  <2>3. changes \in 0 .. MaxChanges /\ Len(got) <= MaxSize
    BY <2>2
  <2>4. count \in -MaxSize .. MaxSize /\ wanted \in -(MaxSize + 1) .. MaxSize
    OBVIOUS
  <2>5. there \in BOOLEAN /\ allowed \in BOOLEAN /\ compat \in BOOLEAN /\ enabled \in BOOLEAN
    BY Zenon
  <2> QED
    BY <2>1, <2>2, <2>3, <2>4, <2>5, Zenon DEF RTypeOK
<1>2. SeenOK /\ ProgressOK /\ TicketOK
  BY DEF SeenOK, ProgressOK, TicketOK, Checked, Counted
<1>3. ReplyIsTheRange /\ OnlyLargeReadsLoseTickets
  BY DEF ReplyIsTheRange, OnlyLargeReadsLoseTickets
<1> QED
  BY <1>1, <1>2, <1>3 DEF IInv

\* The object changes; what was sent stays seen.
LEMMA ChangeOK == IInv /\ Change => IInv'
<1> SUFFICES ASSUME IInv, Change PROVE IInv'
  OBVIOUS
<1>1. PICK n \in 0 .. MaxSize, k \in 0 .. Len(object) :
        object' = [i \in 1 .. n |-> IF i <= k THEN object[i] ELSE changes + 1]
  BY DEF Change
<1>2. /\ changes < MaxChanges /\ changes' = changes + 1
      /\ seen' = seen \cup Placed(object')
      /\ UNCHANGED <<there, allowed, compat, asked, place, enabled, count, got, answer,
                     wanted>>
  BY DEF Change, given
<1>3. /\ object \in Seq(0 .. changes) /\ changes \in Nat /\ n \in Nat
      /\ got \in Seq(0 .. changes)
  BY <1>1, ReadAssumption DEF IInv, RTypeOK
<1>4. object' \in Seq(0 .. changes') /\ Len(object') <= MaxSize
  <2>1. \A i \in 1 .. n :
          (IF i <= k THEN object[i] ELSE changes + 1) \in 0 .. changes'
    BY <1>1, <1>2, <1>3
  <2>2. object' \in [1 .. n -> 0 .. changes']
    BY <1>1, <2>1
  <2>3. object' \in Seq(0 .. changes') /\ Len(object') = n
    BY <1>3, <2>2, FunctionIsSeq
  <2> QED
    BY <2>3
<1>5. got \in Seq(0 .. changes')
  BY <1>2, <1>3
<1>6. RTypeOK'
  BY <1>2, <1>3, <1>4, <1>5, ReadAssumption DEF IInv, RTypeOK
<1>7. SeenOK'
  BY <1>2 DEF SeenOK
<1>8. ProgressOK' /\ TicketOK' /\ OnlyLargeReadsLoseTickets'
  BY <1>2 DEF IInv, ProgressOK, TicketOK, OnlyLargeReadsLoseTickets, NotReadable, Malformed
<1>9. ReplyIsTheRange'
  BY <1>2 DEF IInv, ReplyIsTheRange
<1> QED
  BY <1>6, <1>7, <1>8, <1>9 DEF IInv

LEMMA RemoveOK == IInv /\ Remove => IInv'
<1> SUFFICES ASSUME IInv, Remove PROVE IInv'
  OBVIOUS
<1>1. /\ changes < MaxChanges /\ changes' = changes + 1 /\ there' = FALSE
      /\ UNCHANGED <<object, allowed, compat, asked, place, enabled, count, got, answer,
                     wanted, seen>>
  BY DEF Remove, given
<1>2. changes \in Nat
  BY DEF IInv, RTypeOK
<1>3. object \in Seq(0 .. changes') /\ got \in Seq(0 .. changes')
  BY <1>1, <1>2 DEF IInv, RTypeOK
<1>4. RTypeOK'
  <2>1. changes' \in 0 .. MaxChanges
    BY <1>1, <1>2, ReadAssumption
  <2>2. there' \in BOOLEAN /\ object' = object /\ got' = got
    BY <1>1, Zenon
  <2> QED
    BY <1>1, <1>3, <2>1, <2>2, Zenon DEF IInv, RTypeOK
<1>5. SeenOK' /\ ProgressOK' /\ TicketOK' /\ ReplyIsTheRange'
  BY <1>1 DEF IInv, SeenOK, Placed, ProgressOK, TicketOK, ReplyIsTheRange
<1>6. OnlyLargeReadsLoseTickets'
  BY <1>1 DEF IInv, OnlyLargeReadsLoseTickets, NotReadable, Malformed
<1> QED
  BY <1>4, <1>5, <1>6 DEF IInv

\* A step that neither counts nor sends keeps IInv if what IInv says of its new
\* place and of its reply holds.
LEMMA MovedOK ==
  ASSUME IInv,
         UNCHANGED <<object, there, changes, allowed, seen, compat, asked, count, got,
                     wanted>>,
         enabled' \in BOOLEAN,
         place' \in {"ticket", "status", "size", "dedicate", "open", "seek", "read",
                 "header", "chunk", "done"},
         answer' \in Errors \cup {"none", "begun", "ok", "broken"},
         ProgressOK', TicketOK', OnlyLargeReadsLoseTickets',
         answer' = "ok" => Len(got) = wanted
  PROVE  IInv'
<1>1. RTypeOK'
  BY DEF IInv, RTypeOK, ProgressOK
<1>2. SeenOK'
  BY DEF IInv, SeenOK, Placed
<1>3. ReplyIsTheRange'
  BY DEF IInv, ReplyIsTheRange
<1> QED
  BY <1>1, <1>2, <1>3 DEF IInv

\* A step that changes neither the object nor the request.
Aside == UNCHANGED <<object, there, changes, allowed, seen, compat, asked>>

LEMMA BeginOK == IInv /\ Begin => IInv'
<1> SUFFICES ASSUME IInv, Begin PROVE IInv'
  OBVIOUS
<1>1. /\ place = "begin" /\ Aside
      /\ UNCHANGED <<enabled, count, got, wanted>>
      /\ \/ asked.lpath /\ place' = "ticket" /\ answer' = answer
         \/ ~asked.lpath /\ place' = "done" /\ answer' = "bad_request"
  BY DEF Begin, Answer, ToPlace, objectVars, given, Aside
<1>2. ProgressOK' /\ TicketOK'
  BY <1>1 DEF IInv, ProgressOK, TicketOK, Counted, Checked, Aside
<1>3. OnlyLargeReadsLoseTickets'
  BY <1>1 DEF IInv, ProgressOK, OnlyLargeReadsLoseTickets, Malformed, Aside
<1> QED
  BY <1>1, <1>2, <1>3, MovedOK DEF IInv, RTypeOK, ProgressOK, Errors, Aside

LEMMA EnableTicketOK == IInv /\ EnableTicket => IInv'
<1> SUFFICES ASSUME IInv, EnableTicket PROVE IInv'
  OBVIOUS
<1>1. /\ place = "ticket" /\ Aside
      /\ UNCHANGED <<count, got, wanted, answer>>
      /\ enabled' = asked.ticket /\ place' = "status"
  BY DEF EnableTicket, ToPlace, objectVars, given, Aside
<1>2. enabled' \in BOOLEAN
  BY <1>1, Zenon DEF IInv, RTypeOK, Reads
<1>3. ProgressOK'
  BY <1>1 DEF IInv, ProgressOK, Counted, Checked, Aside
<1>4. TicketOK'
  BY <1>1 DEF TicketOK, Aside
<1>5. OnlyLargeReadsLoseTickets'
  BY <1>1 DEF IInv, ProgressOK, OnlyLargeReadsLoseTickets, Malformed, Aside
<1> QED
  BY <1>1, <1>2, <1>3, <1>4, <1>5, MovedOK DEF IInv, RTypeOK, ProgressOK, Errors, Aside

\* A read is refused for what it asks for, or because it may not read.
LEMMA StatusOK == IInv /\ Status => IInv'
<1> SUFFICES ASSUME IInv, Status PROVE IInv'
  OBVIOUS
<1>1. /\ place = "status" /\ Aside
      /\ UNCHANGED <<enabled, count, got, wanted>>
      /\ \/ place' = "done" /\ answer' = "not_found" /\ ~(there /\ (allowed \/ enabled))
         \/ place' = "done" /\ answer' = "bad_request" /\ asked.offset < 0
         \/ place' = "size" /\ answer' = answer /\ ~(asked.offset < 0)
  BY DEF Status, Answer, ToPlace, Visible, objectVars, given, Aside
<1>2. asked.offset \in Int /\ enabled \in BOOLEAN
  BY DEF IInv, RTypeOK, Reads
<1>3. ProgressOK'
  BY <1>1, <1>2 DEF IInv, ProgressOK, Counted, Checked, Aside
<1>4. TicketOK'
  BY <1>1 DEF IInv, TicketOK, Aside
<1>5. OnlyLargeReadsLoseTickets'
  <2>1. there' = there /\ allowed' = allowed /\ asked' = asked
    BY <1>1, Zenon DEF Aside
  <2>2. CASE answer' = "not_found" /\ ~(there /\ (allowed \/ enabled))
    <3>1. enabled = asked.ticket
      BY <1>1, Zenon DEF IInv, TicketOK
    <3>2. NotReadable'
      BY <2>1, <2>2, <3>1, Zenon DEF NotReadable
    <3>3. answer' # "bad_request"
      BY <2>2
    <3> QED
      BY <3>2, <3>3, Zenon DEF OnlyLargeReadsLoseTickets
  <2>3. CASE answer' = "bad_request" /\ asked.offset < 0
    BY <2>1, <2>3 DEF OnlyLargeReadsLoseTickets, Malformed
  <2>4. CASE answer' = answer
    BY <1>1, <2>4 DEF IInv, ProgressOK, OnlyLargeReadsLoseTickets
  <2> QED
    BY <1>1, <2>2, <2>3, <2>4
<1> QED
  BY <1>1, <1>2, <1>3, <1>4, <1>5, MovedOK DEF IInv, ProgressOK, Errors, Aside

LEMMA DedicateOK == IInv /\ Dedicate => IInv'
<1> SUFFICES ASSUME IInv, Dedicate PROVE IInv'
  OBVIOUS
<1>1. /\ place = "dedicate" /\ Aside
      /\ UNCHANGED <<count, got, wanted, answer>>
      /\ place' = "open"
  BY DEF Dedicate, ToPlace, objectVars, given, Aside
<1>2. enabled' \in BOOLEAN /\ (asked.ticket => enabled' \/ ~compat)
  <2>1. enabled' = (enabled /\ compat)
    BY DEF Dedicate, OwnConnection
  <2>2. enabled = asked.ticket
    BY <1>1, Zenon DEF IInv, TicketOK
  <2> QED
    BY <2>1, <2>2, Zenon DEF IInv, RTypeOK
<1>3. ProgressOK'
  BY <1>1 DEF IInv, ProgressOK, Counted, Checked, Aside
<1>4. TicketOK'
  <2>1. wanted' > Buffer
    BY <1>1 DEF IInv, TicketOK
  <2>2. compat' = compat /\ asked' = asked
    BY <1>1, Zenon DEF Aside
  <2> QED
    BY <1>1, <1>2, <2>1, <2>2, Zenon DEF TicketOK
<1>5. OnlyLargeReadsLoseTickets'
  BY <1>1 DEF IInv, ProgressOK, OnlyLargeReadsLoseTickets, Malformed, Aside
<1> QED
  BY <1>1, <1>2, <1>3, <1>4, <1>5, MovedOK DEF IInv, ProgressOK, Errors, Aside

\* Only here, and with a connection of its own, a ticket may have been lost.
LEMMA OpenOK == IInv /\ Open => IInv'
<1> SUFFICES ASSUME IInv, Open PROVE IInv'
  OBVIOUS
<1>1. /\ place = "open" /\ Aside
      /\ UNCHANGED <<enabled, count, got, wanted>>
      /\ \/ place' = "seek" /\ answer' = answer
         \/ /\ place' = "done" /\ answer' = "bad_request"
            /\ ~there \/ ~(allowed \/ enabled) \/ asked.replica = "invalid"
  BY DEF Open, Answer, ToPlace, Visible, objectVars, given, Aside
<1>2. enabled' \in BOOLEAN
  BY <1>1 DEF IInv, RTypeOK
<1>3. ProgressOK' /\ TicketOK'
  BY <1>1 DEF IInv, ProgressOK, TicketOK, Counted, Checked, Aside
<1>4. OnlyLargeReadsLoseTickets'
  <2>1. /\ there' = there /\ allowed' = allowed /\ compat' = compat /\ asked' = asked
        /\ wanted' = wanted
    BY <1>1, Zenon DEF Aside
  <2>2. CASE answer' = answer /\ place # "done"
    BY <1>1, <2>2 DEF IInv, ProgressOK, OnlyLargeReadsLoseTickets
  <2>3. CASE answer' = "bad_request" /\ (~there \/ asked.replica = "invalid")
    <3>1. answer' # "not_found"
      BY <2>3
    <3> QED
      BY <2>1, <2>3, <3>1, Zenon DEF OnlyLargeReadsLoseTickets, NotReadable, Malformed
  <2>4. CASE answer' = "bad_request" /\ ~(allowed \/ enabled)
    <3>1. asked.ticket => ~compat /\ wanted > Buffer
      BY <1>1, <2>4, Zenon DEF IInv, TicketOK
    <3>2. answer' # "not_found"
      BY <2>4
    <3>3. ~allowed
      BY <2>4
    <3> QED
      BY <2>1, <3>1, <3>2, <3>3, Zenon DEF OnlyLargeReadsLoseTickets, NotReadable
  <2> QED
    BY <1>1, <2>2, <2>3, <2>4 DEF IInv, ProgressOK
<1> QED
  BY <1>1, <1>2, <1>3, <1>4, MovedOK DEF IInv, ProgressOK, Errors, Aside

LEMMA SeekOK == IInv /\ SeekTo => IInv'
<1> SUFFICES ASSUME IInv, SeekTo PROVE IInv'
  OBVIOUS
<1>1. /\ place = "seek" /\ Aside
      /\ UNCHANGED <<enabled, count, got, wanted, answer>>
      /\ place' = "read" \/ (place' = "header" /\ count > Buffer)
  BY DEF SeekTo, ToPlace, Large, objectVars, given, Aside
<1>2. count \in Int /\ enabled' \in BOOLEAN
  BY <1>1 DEF IInv, RTypeOK
<1>3. ProgressOK' /\ TicketOK'
  BY <1>1, <1>2, ReadAssumption DEF IInv, ProgressOK, TicketOK, Counted, Checked, Aside
<1>4. OnlyLargeReadsLoseTickets'
  BY <1>1 DEF IInv, ProgressOK, OnlyLargeReadsLoseTickets, Malformed, Aside
<1> QED
  BY <1>1, <1>2, <1>3, <1>4, MovedOK DEF IInv, ProgressOK, Errors, Aside

\* The header, the last chunk, and all that ends a read before it.
LEMMA SendOK == IInv /\ (SendHeader \/ LastChunk \/ StreamFails \/ Breaks \/ Fails) => IInv'
<1> SUFFICES ASSUME IInv, SendHeader \/ LastChunk \/ StreamFails \/ Breaks \/ Fails
             PROVE  IInv'
  OBVIOUS
<1>1. /\ Aside
      /\ UNCHANGED <<enabled, count, got, wanted>>
      /\ \/ place = "header" /\ place' = "chunk" /\ answer' = "begun"
         \/ place = "chunk" /\ count = 0 /\ place' = "done" /\ answer' = "ok"
         \/ place' = "done" /\ answer' \in {"broken", "internal_server_error"}
  BY DEF SendHeader, LastChunk, AtTheEnd, StreamFails, Breaks, Fails, Answer, objectVars, given,
         Aside
<1>2. enabled' \in BOOLEAN
  BY <1>1 DEF IInv, RTypeOK
<1>3. ProgressOK' /\ TicketOK'
  BY <1>1 DEF IInv, ProgressOK, TicketOK, Counted, Checked, Aside
<1>4. OnlyLargeReadsLoseTickets'
  BY <1>1 DEF OnlyLargeReadsLoseTickets
<1>5. answer' = "ok" => Len(got) = wanted
  <2>1. answer' = "ok" => Len(got) + 0 = wanted
    BY <1>1 DEF IInv, ProgressOK, Counted
  <2>2. Len(got) \in Nat
    BY DEF IInv, RTypeOK
  <2> QED
    BY <2>1, <2>2
<1> QED
  BY <1>1, <1>2, <1>3, <1>4, <1>5, MovedOK DEF Errors, Aside

\* The count is within the object, or the offset is behind its end.
LEMMA CountInBounds ==
  ASSUME RTypeOK, asked.offset >= 0, asked.count = Absent \/ ~(asked.count < 0)
  PROVE  Count \in -MaxSize .. MaxSize
<1> DEFINE real == Len(object) - asked.offset
<1>1. Len(object) \in 0 .. MaxSize /\ asked.offset \in 0 .. MaxSize /\ MaxSize \in Nat
  BY ReadAssumption DEF RTypeOK, Reads
<1>2. real \in -MaxSize .. MaxSize
  BY <1>1
<1> HIDE DEF real
<1>3. CASE asked.count = Absent \/ asked.count > real
  <2>1. Count = real
    BY <1>3, Zenon DEF Count, real
  <2> QED
    BY <1>2, <2>1
<1>4. CASE ~(asked.count = Absent \/ asked.count > real)
  <2>1. asked.count \in -1 .. MaxSize /\ ~(asked.count < 0) /\ ~(asked.count > real)
    BY <1>4 DEF RTypeOK, Reads
  <2>2. Count = asked.count
    BY <1>4, Zenon DEF Count, real
  <2> QED
    BY <1>1, <1>2, <2>1, <2>2
<1> QED
  BY <1>3, <1>4

\* The range is fixed: what is wanted remains.
LEMMA SizeOK == IInv /\ Size => IInv'
<1> SUFFICES ASSUME IInv, Size PROVE IInv'
  OBVIOUS
<1>1. /\ place = "size" /\ Aside /\ UNCHANGED <<enabled, got>>
  BY DEF Size, objectVars, given, Aside
<1>2. CASE UNCHANGED <<count, wanted>> /\ place' = "done"
  <2>1. \/ answer' = "internal_server_error"
        \/ answer' = "bad_request" /\ asked.count # Absent /\ asked.count < 0
    BY <1>2, <1>1 DEF Size, Answer, ToPlace
  <2>2. ProgressOK' /\ TicketOK'
    BY <1>1, <1>2, <2>1 DEF ProgressOK, TicketOK, Counted, Checked
  <2>3. OnlyLargeReadsLoseTickets'
    BY <1>1, <1>2, <2>1 DEF OnlyLargeReadsLoseTickets, Malformed, Aside
  <2>4. enabled' \in BOOLEAN
    BY <1>1 DEF IInv, RTypeOK
  <2> QED
    BY <1>1, <1>2, <2>1, <2>2, <2>3, <2>4, MovedOK DEF Errors, Aside
<1>3. CASE /\ asked.count = Absent \/ ~(asked.count < 0)
           /\ count' = Count /\ wanted' = Count /\ answer' = answer
           /\ place' = IF Count > Buffer THEN "dedicate" ELSE "open"
  <2>1. asked.offset >= 0 /\ answer \in {"none", "begun"} /\ got = <<>>
    BY <1>1 DEF IInv, ProgressOK, Checked
  <2>2. Count \in -MaxSize .. MaxSize
    BY <1>3, <2>1, CountInBounds DEF IInv
  <2>3. RTypeOK'
    <3>1. place' \in {"dedicate", "open"}
      BY <1>3
    <3> QED
      BY <1>1, <1>3, <2>2, <3>1 DEF IInv, RTypeOK, Aside
  <2>4. SeenOK'
    BY <1>1 DEF IInv, SeenOK, Placed, Aside
  <2>5. ProgressOK'
    <3>1. Len(got') + count' = wanted'
      BY <1>1, <1>3, <2>1, <2>2, ReadAssumption
    <3> QED
      BY <1>1, <1>3, <2>1, <3>1 DEF ProgressOK, Checked, Counted, Aside
  <2>6. TicketOK'
    <3>1. enabled' = asked'.ticket
      BY <1>1, Zenon DEF IInv, TicketOK, Aside
    <3>2. place' = "dedicate" => wanted' > Buffer
      BY <1>3
    <3> QED
      BY <3>1, <3>2, Zenon DEF TicketOK
  <2>7. ReplyIsTheRange' /\ OnlyLargeReadsLoseTickets'
    BY <1>1, <1>3, <2>1 DEF ReplyIsTheRange, OnlyLargeReadsLoseTickets
  <2> QED
    BY <2>3, <2>4, <2>5, <2>6, <2>7 DEF IInv
<1> QED
  BY <1>2, <1>3 DEF Size, Answer, ToPlace, Large

\* The whole range at once, or nothing.
LEMMA ReadAtOnceOK == IInv /\ ReadAtOnce => IInv'
<1> SUFFICES ASSUME IInv, ReadAtOnce PROVE IInv'
  OBVIOUS
<1>1. /\ place = "read" /\ Aside /\ UNCHANGED <<enabled, count, wanted>>
      /\ place' = "done"
  BY DEF ReadAtOnce, Answer, objectVars, given, Aside
<1>2. CASE answer' = "internal_server_error" /\ got' = got
  <2>1. ProgressOK' /\ TicketOK' /\ OnlyLargeReadsLoseTickets'
    BY <1>1, <1>2 DEF ProgressOK, TicketOK, OnlyLargeReadsLoseTickets, Counted, Checked
  <2>2. enabled' \in BOOLEAN
    BY <1>1 DEF IInv, RTypeOK
  <2> QED
    BY <1>1, <1>2, <2>1, <2>2, MovedOK DEF Errors, Aside
<1>3. CASE Finds(count) /\ Take(count) /\ answer' = "ok"
  <2>1. count \in Nat
    BY <1>3 DEF IInv, RTypeOK, Finds
  <2>2. /\ got' \in Seq(0 .. changes) /\ Len(got') <= MaxSize
        /\ Len(got') = Len(got) + count
        /\ \A i \in DOMAIN got' : <<asked.offset + i, got'[i]>> \in seen
    BY <1>1, <1>3, <2>1, TakeSendsTheRange
  <2>3. RTypeOK'
    BY <1>1, <1>3, <2>2 DEF IInv, RTypeOK, Aside
  <2>4. SeenOK' /\ ProgressOK' /\ TicketOK'
    BY <1>1 DEF IInv, SeenOK, Placed, ProgressOK, TicketOK, Counted, Checked, Aside
  <2>5. ReplyIsTheRange'
    <3>1. Len(got') = wanted'
      BY <1>1, <2>2 DEF IInv, ProgressOK, Counted
    <3> QED
      BY <1>1, <2>2, <3>1 DEF ReplyIsTheRange, Aside
  <2>6. OnlyLargeReadsLoseTickets'
    BY <1>3 DEF OnlyLargeReadsLoseTickets
  <2> QED
    BY <2>3, <2>4, <2>5, <2>6 DEF IInv
<1> QED
  BY <1>2, <1>3 DEF ReadAtOnce, Answer

\* What a chunk adds to the bytes sent, it takes from those that remain.
LEMMA ChunkOK == IInv /\ TakeChunk => IInv'
<1> SUFFICES ASSUME IInv, TakeChunk PROVE IInv'
  OBVIOUS
<1>1. /\ place = "chunk" /\ Aside /\ UNCHANGED <<place, enabled, wanted, answer>>
      /\ Finds(ChunkSize) /\ Take(ChunkSize) /\ count' = count - ChunkSize
  BY DEF TakeChunk, objectVars, given, Aside
<1>2. count \in Nat /\ Len(got) \in Nat
  BY <1>1 DEF IInv, RTypeOK
<1>3. ChunkSize \in 0 .. count
  BY <1>2, ReadAssumption DEF ChunkSize
<1>4. PICK n \in 0 .. count : n = ChunkSize
  BY <1>3
<1>5. /\ got' \in Seq(0 .. changes) /\ Len(got') <= MaxSize
      /\ Len(got') = Len(got) + n
      /\ \A i \in DOMAIN got' : <<asked.offset + i, got'[i]>> \in seen
  BY <1>1, <1>2, <1>4, TakeSendsTheRange
<1>6. count' = count - n /\ count' \in 0 .. count
  BY <1>1, <1>2, <1>4
<1>7. RTypeOK'
  <2>1. count' \in -MaxSize .. MaxSize /\ count' >= 0
    BY <1>6, ReadAssumption DEF IInv, RTypeOK
  <2> QED
    BY <1>1, <1>5, <2>1 DEF IInv, RTypeOK, Aside
<1>8. SeenOK' /\ TicketOK'
  BY <1>1 DEF IInv, SeenOK, Placed, TicketOK, Aside
<1>9. ProgressOK'
  <2>1. Len(got') + count' = wanted'
    BY <1>1, <1>2, <1>5, <1>6 DEF IInv, ProgressOK, Counted
  <2> QED
    BY <1>1, <1>6, <2>1 DEF IInv, ProgressOK, Counted, Checked, Aside
<1>10. ReplyIsTheRange' /\ OnlyLargeReadsLoseTickets'
  BY <1>1, <1>5 DEF IInv, ProgressOK, ReplyIsTheRange, OnlyLargeReadsLoseTickets, Aside
<1> QED
  BY <1>7, <1>8, <1>9, <1>10 DEF IInv

LEMMA StepOK == IInv /\ [RNext]_rvars => IInv'
<1>1. IInv /\ UNCHANGED rvars => IInv'
  BY DEF rvars, objectVars, given, IInv, RTypeOK, SeenOK, Placed, ProgressOK, TicketOK,
         ReplyIsTheRange, OnlyLargeReadsLoseTickets, NotReadable, Malformed
<1> QED
  BY <1>1, ChangeOK, RemoveOK, BeginOK, EnableTicketOK, StatusOK, DedicateOK, OpenOK, SeekOK,
     SendOK, SizeOK, ReadAtOnceOK, ChunkOK
  DEF RNext, Read

-----------------------------------------------------------------------------
(* The theorems *)

\* The inductive invariant always holds.
THEOREM Invariance == RSpec => []IInv
  BY InitOK, StepOK, PTL DEF RSpec

\* The types of a read; what remains to be sent is never negative.
THEOREM TypeCorrect == RSpec => []RTypeOK
<1>1. IInv => RTypeOK
  BY DEF IInv
<1> QED
  BY <1>1, Invariance, PTL

\* However the object changes between the looks that a read takes at it, every
\* byte that is sent was at the position asked for while the read was under
\* way, and a reply that the client takes for a whole one has them all.
THEOREM RangeIsSent == RSpec => []ReplyIsTheRange
<1>1. IInv => ReplyIsTheRange
  BY DEF IInv
<1> QED
  BY <1>1, Invariance, PTL

\* A read that its parameters and its ticket allow is never told that the object
\* is not there, and is called a bad request only when it gets a connection of
\* its own on which its ticket is not enabled.
THEOREM LargeReadsAlone == RSpec => []OnlyLargeReadsLoseTickets
<1>1. IInv => OnlyLargeReadsLoseTickets
  BY DEF IInv
<1> QED
  BY <1>1, Invariance, PTL

-----------------------------------------------------------------------------
(* The read ends *)

\* The steps that are left when no chunk is counted.
PlacesBehind ==
  [p \in Checked \cup {"begin", "ticket", "status", "done"} |->
     CASE p = "begin" -> 9 [] p = "ticket" -> 8 [] p = "status" -> 7 [] p = "size" -> 6
       [] p = "dedicate" -> 5 [] p = "open" -> 4 [] p = "seek" -> 3 [] p = "header" -> 2
       [] p \in {"read", "chunk"} -> 1 [] OTHER -> 0]

\* The bytes that may have to be read.
BytesLeft == IF place = "done" THEN 0 ELSE IF place = "chunk" THEN count ELSE MaxSize

\* Bounds the steps that are left to the read.
ReadLeft == PlacesBehind[place] + BytesLeft

LEMMA PlacesAre ==
  /\ PlacesBehind["begin"] = 9 /\ PlacesBehind["ticket"] = 8 /\ PlacesBehind["status"] = 7
  /\ PlacesBehind["size"] = 6 /\ PlacesBehind["dedicate"] = 5 /\ PlacesBehind["open"] = 4
  /\ PlacesBehind["seek"] = 3 /\ PlacesBehind["header"] = 2 /\ PlacesBehind["read"] = 1
  /\ PlacesBehind["chunk"] = 1 /\ PlacesBehind["done"] = 0
BY DEF PlacesBehind, Checked, Counted

LEMMA PlaceIs ==
  ASSUME IInv
  PROVE  PlacesBehind[place] \in Nat /\ (place # "done" => PlacesBehind[place] > 0)
<1>1. place \in {"begin", "ticket", "status", "size", "dedicate", "open", "seek",
             "read", "header", "chunk", "done"}
  BY DEF IInv, RTypeOK
<1> QED
  BY <1>1, PlacesAre

LEMMA BytesLeftNat == IInv => BytesLeft \in Nat
<1>1. RTypeOK => count \in Int /\ (place = "chunk" => count >= 0)
  BY ReadAssumption DEF RTypeOK
<1> QED
  BY <1>1, ReadAssumption DEF IInv, BytesLeft

LEMMA ReadLeftNat == IInv => ReadLeft \in Nat
BY PlaceIs, BytesLeftNat DEF ReadLeft

\* A step to a later place, but for the counting of chunks.
LEMMA LaterPlace ==
  ASSUME IInv, place # "done",
         \/ place' = "done"
         \/ place # "chunk" /\ place' # "chunk" /\ PlacesBehind[place'] < PlacesBehind[place]
              /\ PlacesBehind[place'] \in Nat
  PROVE  ReadLeft' < ReadLeft
<1>1. CASE place' = "done"
  <2>1. ReadLeft' = 0
    BY <1>1, PlacesAre DEF ReadLeft, BytesLeft
  <2>2. ReadLeft > 0
    BY PlaceIs, BytesLeftNat DEF ReadLeft
  <2> QED
    BY <2>1, <2>2
<1>2. CASE place' # "done"
  <2>1. PlacesBehind[place] \in Nat
    BY PlaceIs
  <2>2. BytesLeft = MaxSize /\ BytesLeft' = MaxSize
    BY <1>2 DEF BytesLeft
  <2> QED
    BY <1>2, <2>1, <2>2, ReadAssumption DEF ReadLeft
<1> QED
  BY <1>1, <1>2

LEMMA ReadShortens == IInv /\ (Read \/ Breaks \/ Fails) => ReadLeft' < ReadLeft
<1> SUFFICES ASSUME IInv, Read \/ Breaks \/ Fails PROVE ReadLeft' < ReadLeft
  OBVIOUS
<1>1. CASE Breaks \/ Fails \/ LastChunk \/ StreamFails \/ ReadAtOnce
  <2>1. place # "done" /\ place' = "done"
    BY <1>1 DEF Breaks, Fails, LastChunk, StreamFails, ReadAtOnce, Answer
  <2> QED
    BY <2>1, LaterPlace
<1>2. CASE Begin \/ EnableTicket \/ Status \/ Size \/ Dedicate \/ Open \/ SeekTo
  <2>1. \/ place' = "done"
        \/ place = "begin" /\ place' = "ticket"
        \/ place = "ticket" /\ place' = "status"
        \/ place = "status" /\ place' = "size"
        \/ place = "size" /\ place' \in {"dedicate", "open"}
        \/ place = "dedicate" /\ place' = "open"
        \/ place = "open" /\ place' = "seek"
        \/ place = "seek" /\ place' \in {"header", "read"}
    BY <1>2 DEF Begin, EnableTicket, Status, Size, Dedicate, Open, SeekTo, Answer, ToPlace
  <2>2. place # "done"
    BY <1>2 DEF Begin, EnableTicket, Status, Size, Dedicate, Open, SeekTo
  <2> QED
    BY <2>1, <2>2, LaterPlace, PlacesAre
<1>3. CASE SendHeader
  <2>1. place = "header" /\ place' = "chunk" /\ count' = count /\ count <= MaxSize /\ count \in Int
    BY <1>3 DEF SendHeader, IInv, RTypeOK
  <2> QED
    BY <2>1, PlacesAre, ReadAssumption DEF ReadLeft, BytesLeft
<1>4. CASE TakeChunk
  <2>1. /\ place = "chunk" /\ place' = "chunk" /\ count # 0 /\ count \in Nat
        /\ count' = count - ChunkSize
    BY <1>4 DEF TakeChunk, IInv, RTypeOK
  <2>2. ChunkSize \in 1 .. count
    BY <2>1, ReadAssumption DEF ChunkSize
  <2> QED
    BY <2>1, <2>2, PlacesAre DEF ReadLeft, BytesLeft
<1> QED
  BY <1>1, <1>2, <1>3, <1>4 DEF Read

\* Whatever other clients do to the object, and however long it is, each step of
\* a read leaves less to do than the one before (incremental_read::read_next_chunk
\* in particular, which posts itself again after each chunk).  ReadEnds needs, besides, that a
\* read that is not done has a step.
THEOREM ReadAdvances ==
  RSpec => /\ [](ReadLeft \in Nat)
           /\ [][ReadLeft' <= ReadLeft /\ (Read \/ Breaks \/ Fails => ReadLeft' < ReadLeft)]_rvars
<1>1. IInv => ReadLeft \in Nat
  BY ReadLeftNat
<1>2. IInv /\ (ReadLeft \in Nat) /\ (ReadLeft \in Nat)' /\ [RNext]_rvars =>
        [ReadLeft' <= ReadLeft /\ (Read \/ Breaks \/ Fails => ReadLeft' < ReadLeft)]_rvars
  <2> SUFFICES ASSUME IInv, ReadLeft \in Nat, ReadLeft' \in Nat, RNext
               PROVE  ReadLeft' <= ReadLeft /\ (Read \/ Breaks \/ Fails => ReadLeft' < ReadLeft)
    OBVIOUS
  <2>1. CASE Read \/ Breaks \/ Fails
    BY <2>1, ReadShortens
  <2>2. CASE ~ (Read \/ Breaks \/ Fails)
    <3>1. place' = place /\ count' = count
      BY <2>2 DEF RNext, Change, Remove, objectVars, given
    <3>2. ReadLeft' = ReadLeft
      BY <3>1 DEF ReadLeft, BytesLeft
    <3> QED
      BY <2>2, <3>2
  <2> QED
    BY <2>1, <2>2
<1> QED
  BY <1>1, <1>2, Invariance, PTL DEF RSpec
============================================================================
