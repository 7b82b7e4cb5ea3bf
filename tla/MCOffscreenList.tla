--------------------------- MODULE MCOffscreenList ---------------------------
(***************************************************************************)
(* Values for TLC: a pool whose base is not a multiple of the alignments,  *)
(* requests of every kind, and a record for each area there can be.        *)
(***************************************************************************)
EXTENDS OffscreenList

Req(sizes, aligns, locked) == [size : sizes, align : aligns, locked : locked]

\* Evictable and locked requests, with and without an alignment.
EvictableRequests == Req({0, 3}, {4}, {TRUE}) \cup Req({4, 6}, {0, 4}, {FALSE})

AllRecords == 1 .. 6

\* Everything with each record named by its place in the list: which memory
\* malloc returned makes no difference to what follows.
PlaceOf(n) == IF n \in InList(list) THEN Base(list, n) ELSE Null

ByPlace ==
  <<vars, PlaceOf(list.head), list.available,
    {[list.node[n] EXCEPT !.next = PlaceOf(@), !.prev = PlaceOf(@)] :
       n \in InList(list)},
    pc, request, PlaceOf(area), need, PlaceOf(begin),
    [scan EXCEPT !.at = PlaceOf(@)], [best EXCEPT !.at = PlaceOf(@)]>>
=============================================================================
