-------------------------- MODULE RequestArguments --------------------------
(***************************************************************************)
(* From what a client sends to the arguments of an operation's handler:    *)
(* execute_operation, parse_url and to_argument_list in                    *)
(* core/src/common.cpp, and the parser of multipart_form_data.cpp with its *)
(* four states.                                                            *)
(*                                                                         *)
(* A text is a sequence of tokens: "crlf", "boundary" (the two dashes and  *)
(* the boundary), "dashes" (the two behind the last one), "name n" (the    *)
(* value of a header that names the part n), "%c" (the escape of c), and   *)
(* characters.                                                             *)
(***************************************************************************)
EXTENDS Integers, SequencesExt, FiniteSets

CONSTANTS
  Names,    \* Names of arguments.
  Values,   \* Values of arguments: sequences of characters.
  MaxPairs  \* Bound: the arguments of a request.

Characters == UNION {{v[i] : i \in DOMAIN v} : v \in Values}

NameToken(n) == "name " \o n

Escape(c) == "%" \o c

\* Values are texts without the boundary, and tokens are told apart.
ASSUME ArgumentsAssumption ==
  /\ MaxPairs \in Nat
  /\ "op" \in Names /\ {"&", "="} \cap Names = {}
  /\ <<"x">> \in Values /\ Values \subseteq Seq(Characters)
  /\ {"boundary", "dashes"} \cap Characters = {}
  /\ \A n \in Names :
       /\ NameToken(n) \notin {"crlf", "boundary", ":"}
       /\ \A m \in Names : NameToken(m) = NameToken(n) => m = n
  /\ \A c \in Characters :
       /\ Escape(c) \notin {"x", "+", "&", "="}
       /\ \A d \in Characters : Escape(d) = Escape(c) => d = c

Pairs == [name : Names, value : Values]

\* A client sends an argument once.
Forms == {f \in BoundedSeq(Pairs, MaxPairs) :
            \A i, j \in DOMAIN f : f[i].name = f[j].name => i = j}

-----------------------------------------------------------------------------
(* What clients send *)

\* A character that a client escapes; a space may be a plus instead.
Escaped(c, plus) ==
  IF c = "x" THEN c ELSE IF c = " " /\ plus THEN "+" ELSE Escape(c)

\* A pair, and what separates it from the one before.
PairText(f, i, plus) ==
  LET v == f[i].value
  IN (IF i = 1 THEN <<>> ELSE <<"&">>)
     \o <<f[i].name, "=">> \o [j \in DOMAIN v |-> Escaped(v[j], plus)]

UrlEncoded(f, plus) == FlattenSeq([i \in DOMAIN f |-> PairText(f, i, plus)])

PartText(p) ==
  <<"boundary", "crlf", "disposition", ":", NameToken(p.name), "crlf",
    "type", ":", "x", "crlf", "crlf">> \o p.value \o <<"crlf">>

Multipart(f) ==
  FlattenSeq([i \in DOMAIN f |-> PartText(f[i])]) \o <<"boundary", "dashes", "crlf">>

-----------------------------------------------------------------------------

VARIABLES
  content,    \* The method and the content type.
  form,       \* The arguments that the client means.
  damage,     \* What the client does to a multipart form: "none", "cut", "dropped".
  data,       \* What it sends.
  pstate,     \* The state of the parser, or of execute_operation.
  pos,        \* pos of the parser, counting from 1.
  args,       \* The arguments so far.
  param_name, \* The name of the part.
  outcome     \* What becomes of the request.

avars == <<content, form, damage, data, pstate, pos, args, param_name, outcome>>

Contents == {"query", "urlencoded", "multipart", "no boundary", "other", "unsupported method"}

\* A whole form; one that ends early; one that lacks a token.
Damaged(d) ==
  {[damage |-> "none", data |-> d]}
  \cup {[damage |-> "cut", data |-> SubSeq(d, 1, n)] : n \in 0 .. Len(d) - 1}
  \cup {[damage |-> "dropped", data |-> RemoveAt(d, i)] : i \in DOMAIN d}

Sent(c, f) ==
  CASE c \in {"query", "urlencoded"} ->
         {[damage |-> "none", data |-> UrlEncoded(f, plus)] : plus \in BOOLEAN}
    [] c = "multipart" -> Damaged(Multipart(f))
    [] OTHER -> {[damage |-> "none", data |-> <<>>]}

AInit ==
  /\ content \in Contents
  /\ form \in Forms
  /\ \E s \in Sent(content, form) : damage = s.damage /\ data = s.data
  /\ pstate = "dispatch"
  /\ pos = 1
  /\ args = [n \in {} |-> <<>>]
  /\ param_name = ""
  /\ outcome = "none"

Assign(as, n, v) == [m \in DOMAIN as \cup {n} |-> IF m = n THEN v ELSE as[m]]

Move(next, p) == pstate' = next /\ pos' = p

\* The first place of a token from a position on; 0 if there is none.
Find(t, from) ==
  IF \E i \in from .. Len(data) : data[i] = t
  THEN CHOOSE i \in from .. Len(data) :
         data[i] = t /\ \A k \in from .. i - 1 : data[k] # t
  ELSE 0

At(p, t) == p <= Len(data) /\ data[p] = t

-----------------------------------------------------------------------------
(* to_argument_list *)

\* curl_easy_unescape
Unescape(c) ==
  IF \E e \in Characters : c = Escape(e)
  THEN CHOOSE e \in Characters : c = Escape(e) ELSE c

PlusIsSpace(c) == IF c = "+" THEN " " ELSE c

\* The value is decoded before the pluses are replaced.
DecodeValue(v) == [i \in DOMAIN v |-> PlusIsSpace(Unescape(v[i]))]

\* A name is one token here.
KeyOf(s) == IF Len(s) = 1 THEN s[1] ELSE ""

\* A token without an equal sign is a name, one with two is dropped.
AddToken(as, token) ==
  LET equals == {i \in DOMAIN token : token[i] = "="}
  IN CASE equals = {} -> Assign(as, KeyOf(token), <<>>)
       [] Cardinality(equals) = 1 ->
            LET e == CHOOSE i \in equals : TRUE
            IN Assign(as, KeyOf(SubSeq(token, 1, e - 1)),
                      DecodeValue(SubSeq(token, e + 1, Len(token))))
       [] OTHER -> as

\* One round of the loop: the text up to the next "&".
SplitToken ==
  /\ pstate = "split"
  /\ LET amp == Find("&", pos)
     IN IF amp = 0
        THEN args' = AddToken(args, SubSeq(data, pos, Len(data))) /\ Move("select", pos)
        ELSE args' = AddToken(args, SubSeq(data, pos, amp - 1)) /\ Move("split", amp + 1)
  /\ UNCHANGED <<content, form, damage, data, param_name, outcome>>

-----------------------------------------------------------------------------
(* parse_multipart_form_data *)

\* The parser returns the arguments that it has, whether the form is malformed
\* here or ends.
ReturnArgs == Move("select", pos) /\ UNCHANGED <<args, param_name>>

FindBoundaryStart ==
  /\ pstate = "find_boundary_start"
  /\ LET bs == Find("boundary", pos)
     IN IF bs = 0 \/ At(bs + 1, "dashes") THEN ReturnArgs
        ELSE Move("read_boundary_start", bs) /\ UNCHANGED <<args, param_name>>
  /\ UNCHANGED <<content, form, damage, data, outcome>>

\* Faulty variant: the end of the line is not looked at.
AnyEnd == TRUE

EndsLine == At(pos + 1, "crlf")

ReadBoundaryStart ==
  /\ pstate = "read_boundary_start"
  /\ IF EndsLine
     THEN Move("read_header", pos + 2) /\ UNCHANGED <<args, param_name>>
     ELSE ReturnArgs
  /\ UNCHANGED <<content, form, damage, data, outcome>>

\* The header's name is what is before the next colon, trimmed.
IsDisposition(from, colon) ==
  \E i \in from .. colon - 1 :
    /\ data[i] = "disposition"
    /\ \A j \in from .. colon - 1 : j # i => data[j] = "crlf"

\* The name parameter of a header's value, or what the name was.  What a header
\* that lacks a token names is not told apart.
NameOf(from, crlf) ==
  IF \E n \in Names : \E i \in from .. crlf - 1 : data[i] = NameToken(n)
  THEN CHOOSE n \in Names : \E i \in from .. crlf - 1 : data[i] = NameToken(n)
  ELSE param_name

ReadPartHeader ==
  /\ pstate = "read_header"
  /\ LET colon == Find(":", pos)
         crlf == IF colon = 0 THEN 0 ELSE Find("crlf", colon + 1)
     IN IF crlf = 0 THEN ReturnArgs
        ELSE /\ param_name' = IF IsDisposition(pos, colon) THEN NameOf(colon + 1, crlf)
                              ELSE param_name
             /\ IF At(crlf + 1, "crlf") THEN Move("read_body", crlf + 2)
                ELSE Move("read_header", crlf + 1)
             /\ UNCHANGED args
  /\ UNCHANGED <<content, form, damage, data, outcome>>

\* The text before the crlf of the boundary.  Where that is the one before the
\* text, the length is less than zero, which is as much as there is.
MessageBody(bs) ==
  IF bs - 1 < pos THEN SubSeq(data, pos, Len(data)) ELSE SubSeq(data, pos, bs - 2)

AfterBody == "find_boundary_start"

\* Faulty variant: what the form ends with is an argument.
KeepRest ==
  /\ args' = Assign(args, param_name, SubSeq(data, pos, Len(data)))
  /\ Move("select", pos)
  /\ UNCHANGED param_name

\* No boundary follows: the part is lost.
DropRest == ReturnArgs

ReadPartBody ==
  /\ pstate = "read_body"
  /\ LET bs == Find("boundary", pos)
     IN IF bs = 0 THEN DropRest
        ELSE IF ~At(bs - 1, "crlf") THEN ReturnArgs
        ELSE /\ args' = Assign(args, param_name, MessageBody(bs))
             /\ param_name' = ""
             /\ Move(AfterBody, bs)
  /\ UNCHANGED <<content, form, damage, data, outcome>>

-----------------------------------------------------------------------------
(* execute_operation *)

Finish(o) == pstate' = "done" /\ outcome' = o /\ UNCHANGED <<pos, args, param_name>>

\* GET: parse_url throws if the target has no query.  POST: by content type.  A
\* method that the endpoint has no operations for is refused first.
Dispatch ==
  /\ pstate = "dispatch"
  /\ CASE content = "query" /\ data = <<>> -> Finish("internal_server_error")
       [] content = "unsupported method" -> Finish("method_not_allowed")
       [] content \in {"other", "no boundary"} -> Finish("bad_request")
       [] content = "multipart" ->
            /\ Move(IF data = <<>> THEN "select" ELSE "find_boundary_start", 1)
            /\ UNCHANGED <<args, param_name, outcome>>
       [] OTHER ->
            /\ Move(IF data = <<>> THEN "select" ELSE "split", 1)
            /\ UNCHANGED <<args, param_name, outcome>>
  /\ UNCHANGED <<content, form, damage, data>>

\* There is an op, and a handler of that name: the one called x.
SelectOperation ==
  /\ pstate = "select"
  /\ Finish(IF "op" \in DOMAIN args /\ args["op"] = <<"x">> THEN "handler" ELSE "bad_request")
  /\ UNCHANGED <<content, form, damage, data>>

ANext ==
  \/ Dispatch \/ SelectOperation \/ SplitToken
  \/ FindBoundaryStart \/ ReadBoundaryStart \/ ReadPartHeader \/ ReadPartBody

ASpec == AInit /\ [][ANext]_avars

\* The thread that parses runs.
AFairSpec == ASpec /\ WF_avars(ANext)

-----------------------------------------------------------------------------
(* What the code promises *)

\* The type of every variable: no argument has a name that nobody sent.
ATypeOK ==
  /\ content \in Contents
  /\ form \in Seq(Pairs)
  /\ damage \in {"none", "cut", "dropped"}
  /\ pstate \in {"dispatch", "split", "find_boundary_start", "read_boundary_start",
                 "read_header", "read_body", "select", "done"}
  /\ pos \in 1 .. Len(data) + 1
  /\ DOMAIN args \in SUBSET (Names \cup {""})
  /\ param_name \in Names \cup {""}
  /\ outcome \in {"none", "handler", "bad_request", "method_not_allowed",
                  "internal_server_error"}

\* A character d is what the client meant by c.  Of what is URL-encoded, in a
\* query or a body, a plus may have become a space, although it was escaped: it
\* cannot be sent that way (common.cpp:137-138), which API.md does not say.
Arrives(c, d) == d = c \/ (content # "multipart" /\ c = "+" /\ d = " ")

\* The arguments are those of the form, no more and no less.
Gets(as, f) ==
  /\ DOMAIN as = {f[i].name : i \in DOMAIN f}
  /\ \A i \in DOMAIN f :
       LET meant == f[i].value
           value == as[f[i].name]
       IN /\ DOMAIN value = DOMAIN meant
          /\ \A j \in DOMAIN meant : Arrives(meant[j], value[j])

\* Whatever the values hold -- line ends, colons, signs that separate pairs --
\* a handler gets the arguments the client meant, each character of them, but
\* for a plus that is not sent as multipart.  A multipart form that ends early
\* is not refused: its first arguments are used, whole, and nothing of the one
\* that was cut.
HandlerGetsTheForm ==
  /\ outcome = "handler" /\ damage = "none" => Gets(args, form)
  /\ pstate = "done" /\ damage = "cut" =>
       \E k \in 0 .. Len(form) : Gets(args, SubSeq(form, 1, k))

\* Whatever is sent, the parser comes to an end and the request is dispatched.
Dispatched == <>(pstate = "done")
=============================================================================
