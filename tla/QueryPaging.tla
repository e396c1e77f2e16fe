---------------------------- MODULE QueryPaging ----------------------------
(***************************************************************************)
(* Paging through the rows of a query with offset and count, which         *)
(* op_execute_genquery (GenQuery1) hands to the iRODS server and           *)
(* op_execute_specific_query counts itself, while rows come and go.        *)
(*                                                                         *)
(* The client starts at an offset and goes on behind the rows it got until *)
(* a page has none.  A row is known by the number of those that came       *)
(* before it; the query orders them otherwise, and one that comes may be   *)
(* between any two.                                                        *)
(***************************************************************************)
EXTENDS EndpointOperations, Integers, Sequences, FiniteSets

CONSTANTS
  MaxRows,      \* Bound: the rows that there ever are.
  QueryIntMax,  \* What an int holds.
  MaxRowCount   \* max_number_of_rows_per_catalog_query

ASSUME PagingAssumption ==
  /\ MaxRows \in Nat /\ MaxRowCount \in Nat \ {0}
  /\ QueryIntMax \in Nat /\ MaxRowCount <= QueryIntMax /\ MaxRows <= QueryIntMax

VARIABLES
  rows,      \* The rows of the query, in its order.
  came,      \* The number of rows that have come so far.
  offset,    \* The offset of the client's next request ...
  count,     \* ... and the count of all of them.
  first,     \* The rows that were there from its first offset on.
  early,     \* The number of rows that came before the offset since.
  lost,      \* The rows that went since.
  got,       \* The rows that the client got, in the order of the pages.
  page,      \* Its last page.
  pageReply  \* The last answer.

pvars == <<rows, came, offset, count, first, early, lost, got, page, pageReply>>

NotAsked == [http |-> 0, code |-> "none"]

\* std::max(0, offset)
FromZero(n) == IF n < 0 THEN 0 ELSE n

PInit ==
  /\ came \in 0 .. MaxRows
  /\ rows = [i \in 1 .. came |-> i]
  /\ offset \in {0 - 1, 0, 1, QueryIntMax + 1}
  /\ count \in {0 - QueryIntMax - 2, 0 - 1, 0, 1, 2, QueryIntMax}
  /\ first = {i \in 1 .. came : i > FromZero(offset)}
  /\ early = 0
  /\ lost = {}
  /\ got = <<>>
  /\ page = <<>>
  /\ pageReply = NotAsked

\* A page was asked for, and none was there.
AllRead == pageReply = Ok /\ page = <<>>

-----------------------------------------------------------------------------
(* The rows *)

RowComes ==
  /\ came < MaxRows
  /\ came' = came + 1
  /\ \E i \in 1 .. Len(rows) + 1 :
       /\ rows' = SubSeq(rows, 1, i - 1) \o <<came + 1>> \o SubSeq(rows, i, Len(rows))
       /\ early' = IF i <= offset THEN early + 1 ELSE early
  /\ UNCHANGED <<offset, count, first, lost, got, page, pageReply>>

RowGoes ==
  /\ ~AllRead
  /\ \E i \in DOMAIN rows :
       /\ lost' = lost \cup {rows[i]}
       /\ rows' = SubSeq(rows, 1, i - 1) \o SubSeq(rows, i + 1, Len(rows))
  /\ UNCHANGED <<came, offset, count, first, early, got, page, pageReply>>

-----------------------------------------------------------------------------
(* The requests *)

\* std::stoi
FitsInt(n) == n \in 0 - QueryIntMax - 1 .. QueryIntMax

\* std::clamp(count, 1, max_row_count)
Clamp(n) == CASE n < 1 -> 1 [] n > MaxRowCount -> MaxRowCount [] OTHER -> n

\* Faulty variant: one row too many is passed over.
OneMore(skip) == skip + 1

\* offset_counter: how many rows are passed over.
PassedOver(skip) == skip

\* The loop of op_execute_specific_query, which ends when the number of rows
\* is count, and what GenQuery1 does with row_offset and row_limit: the last
\* row of a page.
LastInPage(skip, limit) ==
  LET last == PassedOver(skip) + limit
  IN IF limit >= 1 /\ last < Len(rows) THEN last ELSE Len(rows)

PageOf(skip, limit) == SubSeq(rows, PassedOver(skip) + 1, LastInPage(skip, limit))

AskPage ==
  /\ ~AllRead
  /\ FitsInt(offset) /\ FitsInt(count)
  /\ page' = PageOf(FromZero(offset), Clamp(count))
  /\ got' = got \o page'
  /\ offset' = FromZero(offset) + Len(page')
  /\ pageReply' = Ok
  /\ UNCHANGED <<rows, came, count, first, early, lost>>

RefusePage ==
  /\ ~FitsInt(offset) \/ ~FitsInt(count)
  /\ pageReply' = BadRequest
  /\ UNCHANGED <<rows, came, offset, count, first, early, lost, got, page>>

\* An exception while the rows are read: none of them is sent, and the client
\* may ask again.
PageFails ==
  /\ ~AllRead
  /\ FitsInt(offset) /\ FitsInt(count)
  /\ pageReply' = IrodsError
  /\ UNCHANGED <<rows, came, offset, count, first, early, lost, got, page>>

PNext == RowComes \/ RowGoes \/ AskPage \/ RefusePage \/ PageFails

PSpec == PInit /\ [][PNext]_pvars

-----------------------------------------------------------------------------
(* What the code promises *)

\* The type of every variable; API.md: "count will be clamped to the range
\* [1, N]", so that no page has more rows than the administrator allows.
PTypeOK ==
  /\ came \in 0 .. MaxRows
  /\ rows \in Seq(1 .. came) /\ got \in Seq(1 .. came) /\ page \in Seq(1 .. came)
  /\ Len(page) <= MaxRowCount
  /\ offset \in 0 - 1 .. QueryIntMax + 1
  /\ early \in 0 .. came
  /\ lost \in SUBSET (1 .. came)
  /\ first \in SUBSET (1 .. came)
  /\ pageReply \in {NotAsked, Ok, BadRequest, IrodsError}

\* Rows come and go between the pages, wherever, and requests fail.  The client
\* gets rows again at most as often as a row came before the offset, and when
\* it has read all pages it misses, of the rows that stayed, at most as many as
\* went: what comes or goes there moves the others over the offset by one.
PagesCoverTheRows ==
  LET all == {got[i] : i \in DOMAIN got}
  IN /\ Len(got) <= Cardinality(all) + early
     /\ AllRead => Cardinality((first \ lost) \ all) <= Cardinality(lost)
=============================================================================
