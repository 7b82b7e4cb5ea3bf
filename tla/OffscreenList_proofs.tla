-------------------------- MODULE OffscreenList_proofs --------------------------
(***************************************************************************)
(* Proofs about OffscreenList: the linked list and the loops over it       *)
(* implement OffscreenAreas, for every pool, every set of requests and any *)
(* memory that malloc may return.                                          *)
(***************************************************************************)
EXTENDS OffscreenList, OffscreenAreas_proofs

-----------------------------------------------------------------------------
(* Lists that hang together, and what they stand for. *)

\* A free area of the list bears no trace of its last use.
Blank(a) == a.state = Avail => a.last_use = 0 /\ a.want = 0

Record ==
  [base_offset : OffScreenBase .. MemorySize - 1, area : Area,
   next : Records \cup {Null}, prev : Records \cup {Null}]

ListOK(l) ==
  /\ InList(l) \subseteq Records
  /\ l.node \in [InList(l) -> Record]
  /\ \A n \in InList(l) : Blank(l.node[n].area)
  /\ l.available \in Int
  /\ Linked(l)

ListOrNone(l) ==
  IF l.head = Null THEN InList(l) = {} /\ l.available \in Int ELSE ListOK(l)

Settled(l) == AreasOf(l) = areas /\ l.available = numOffscreenAvailable

\* The areas from that of n to hi are free and merged into it.
Cleared(l, n, hi) ==
  /\ n \in InList(l)
  /\ Block(Base(l, n), hi)
  /\ AreasOf(l) = Coalesce(Base(l, n), hi)
  /\ l.available = Recount(Base(l, n), hi)

-----------------------------------------------------------------------------
(* The inductive invariant. *)

InListOrNull == InList(list) \cup {Null}

PosOf(n) == IF n = Null THEN MemorySize ELSE Base(list, n)

Asked == request \in Requests /\ ~ Rejected(request)

FitInv ==
  /\ Asked /\ Settled(list)
  /\ area \in InListOrNull
  /\ \A c \in FitsFree(request) : PosOf(area) <= c

BestInv ==
  IF best.at = Null THEN best = NoBest
  ELSE /\ best.at \in InList(list)
       /\ Base(list, best.at) \in Candidates(request)
       /\ best.score = Score(Base(list, best.at), request)
       /\ best.score < NoScore

SearchInv ==
  /\ Asked /\ Settled(list)
  /\ FitsFree(request) = {}
  /\ begin \in InListOrNull
  /\ BestInv
  /\ \A c \in Candidates(request) : c < PosOf(begin) =>
       best.at # Null /\ best.score <= Score(c, request)

Scanned == {c \in DOMAIN areas : Base(list, begin) <= c /\ c < PosOf(scan.at)}

ScanInv ==
  /\ begin \in InList(list)
  /\ need = HeadSize(Base(list, begin), request)
  /\ scan.at \in InListOrNull
  /\ Base(list, begin) <= PosOf(scan.at)
  /\ scan.avail = PosOf(scan.at) - Base(list, begin)
  /\ scan.avail < need
  /\ scan.score = Total[Scanned]
  /\ \A c \in Scanned : areas[c].state # Locked
  /\ IF \E c \in Scanned : Age(c) = 0
     THEN Infinite <= scan.score
     ELSE scan.score <= scan.avail * ScoreScale

\* What OffscreenAreas would choose for r, or what becomes of it once the
\* areas up to hi are free and more are kicked out until n bytes are.
RoomAt(lo, hi, n, r) ==
  \/ <<lo, hi, n>> \in FirstFit(r)
  \/ /\ FitsFree(r) = {}
     /\ \E b \in Cheapest(r) :
          /\ n = HeadSize(b, r)
          /\ lo = (IF IsFree(b) THEN b ELSE LeftEdge(b))
          /\ b < hi
          /\ \A f \in Stops(b, lo, n) : hi <= f

TakeInv ==
  /\ Asked
  /\ \E hi \in 0 .. MemorySize :
       Cleared(list, area, hi) /\ RoomAt(Base(list, area), hi, need, request)

SwapInv ==
  /\ list.head # Null
  /\ \/ Settled(list) /\ ~ IsAvail(list, list.head)
     \/ \E hi \in 0 .. MemorySize : Cleared(list, list.head, hi)

ListInv ==
  /\ IInv
  /\ ListOrNone(list)
  /\ pc = "idle"   => Settled(list) /\ Idle
  /\ pc = "fit"    => FitInv /\ best = NoBest
  /\ pc = "search" => SearchInv
  /\ pc = "scan"   => SearchInv /\ ScanInv
  /\ pc = "take"   => TakeInv
  /\ pc = "swap"   => SwapInv

-----------------------------------------------------------------------------
(* What the links give. *)

LEMMA NodeFields ==
  ASSUME NEW b, NEW a, NEW next, NEW prev
  PROVE  /\ Node(b, a, next, prev).base_offset = b
         /\ Node(b, a, next, prev).area = a
         /\ Node(b, a, next, prev).next = next
         /\ Node(b, a, next, prev).prev = prev
         /\ b \in OffScreenBase .. MemorySize - 1 /\ a \in Area
            /\ next \in Records \cup {Null} /\ prev \in Records \cup {Null}
              => Node(b, a, next, prev) \in Record
BY DEF Node, Record

LEMMA NodeFacts ==
  ASSUME NEW l, ListOK(l), NEW n \in InList(l)
  PROVE  /\ n \in Records /\ n # Null
         /\ l.node[n] = Node(Base(l, n), l.node[n].area, NextOf(l, n), PrevOf(l, n))
         /\ l.node[n].area \in Area /\ Blank(l.node[n].area)
         /\ Base(l, n) \in OffScreenBase .. MemorySize - 1 /\ Base(l, n) \in Nat
         /\ Size(l, n) \in Nat \ {0} /\ Limit(l, n) \in Nat
         /\ Base(l, n) < Limit(l, n)
         /\ State(l, n) \in States
         /\ NextOf(l, n) \in Records \cup {Null}
         /\ PrevOf(l, n) \in Records \cup {Null}
<1>1. l.node[n] \in Record
  BY DEF ListOK
<1>2. n \in Records /\ n # Null /\ Blank(l.node[n].area)
  BY RecordAssumption DEF ListOK
<1>3. l.node[n].area \in Area /\ l.node[n].base_offset \in OffScreenBase .. MemorySize - 1
  BY <1>1 DEF Record
<1>4. l.node[n].area.size \in Nat \ {0} /\ l.node[n].area.state \in States
  BY <1>3 DEF Area
<1>5. l.node[n].next \in Records \cup {Null} /\ l.node[n].prev \in Records \cup {Null}
  BY <1>1 DEF Record
<1>6. l.node[n] = Node(Base(l, n), l.node[n].area, NextOf(l, n), PrevOf(l, n))
  BY <1>1 DEF Record, Node, Base, NextOf, PrevOf
<1>7. Base(l, n) \in Nat
  BY <1>3, PoolAssumption DEF Base
<1> QED
  BY <1>2, <1>3, <1>4, <1>5, <1>6, <1>7 DEF Base, Size, Limit, State, NextOf, PrevOf

\* Different records have different places.
LEMMA BasesDiffer ==
  ASSUME NEW l, ListOK(l), NEW m \in InList(l), NEW n \in InList(l), m # n
  PROVE  /\ Base(l, m) # Base(l, n)
         /\ Limit(l, m) <= Base(l, n) \/ Limit(l, n) <= Base(l, m)
BY NodeFacts DEF ListOK, Linked

LEMMA AreasOfFacts ==
  ASSUME NEW l, ListOK(l)
  PROVE  /\ DOMAIN AreasOf(l) = {Base(l, n) : n \in InList(l)}
         /\ \A n \in InList(l) : AreasOf(l)[Base(l, n)] = l.node[n].area
<1>1. ASSUME NEW n \in InList(l) PROVE RecordAt(l, Base(l, n)) = n
  <2>1. /\ RecordAt(l, Base(l, n)) \in InList(l)
        /\ Base(l, RecordAt(l, Base(l, n))) = Base(l, n)
    BY DEF RecordAt
  <2> QED
    BY <2>1, BasesDiffer
<1> QED
  BY <1>1 DEF AreasOf

\* A list stands for the function that agrees with it record by record.
LEMMA StandsFor ==
  ASSUME NEW l, ListOK(l), NEW F,
         F = [b \in DOMAIN F |-> F[b]],
         DOMAIN F = {Base(l, n) : n \in InList(l)},
         \A n \in InList(l) : F[Base(l, n)] = l.node[n].area
  PROVE  AreasOf(l) = F
<1>1. AreasOf(l) = [b \in DOMAIN F |-> AreasOf(l)[b]]
  BY DEF AreasOf
<1>2. ASSUME NEW b \in DOMAIN F PROVE AreasOf(l)[b] = F[b]
  <2>1. PICK n \in InList(l) : b = Base(l, n)
    OBVIOUS
  <2> QED
    BY <2>1, AreasOfFacts
<1> QED
  BY <1>1, <1>2

\* Where the record after n is.
LEMMA NextFacts ==
  ASSUME NEW l, ListOK(l), NEW n \in InList(l)
  PROVE  /\ NextOf(l, n) = Null => Limit(l, n) = MemorySize
         /\ NextOf(l, n) # Null =>
              /\ NextOf(l, n) \in InList(l) /\ NextOf(l, n) # n
              /\ Base(l, NextOf(l, n)) = Limit(l, n)
              /\ PrevOf(l, NextOf(l, n)) = n
              /\ NextOf(l, n) # l.head
<1>1. NextOf(l, n) = Null => Limit(l, n) = MemorySize
  BY DEF ListOK, Linked
<1>2. ASSUME NextOf(l, n) # Null
      PROVE  /\ NextOf(l, n) \in InList(l)
             /\ Base(l, NextOf(l, n)) = Limit(l, n)
             /\ PrevOf(l, NextOf(l, n)) = n
  BY <1>2 DEF ListOK, Linked
<1>3. l.head \in InList(l) /\ Base(l, l.head) = OffScreenBase
  BY DEF ListOK, Linked
<1> QED
  BY <1>1, <1>2, <1>3, NodeFacts, PoolAssumption

-----------------------------------------------------------------------------
(* Merging and freeing. *)

LEMMA MergeShape ==
  ASSUME NEW l, ListOK(l), NEW n \in InList(l), NextOf(l, n) # Null,
         IsAvail(l, n) => IsAvail(l, NextOf(l, n))
  PROVE  LET k == Merge(l, n)
         IN  /\ ListOK(k) /\ k.head = l.head
             /\ InList(k) = InList(l) \ {NextOf(l, n)}
             /\ \A m \in InList(k) : Base(k, m) = Base(l, m)
             /\ \A m \in InList(k) : m # n =>
                  /\ k.node[m].area = l.node[m].area
                  /\ NextOf(k, m) = NextOf(l, m)
             /\ k.node[n].area =
                  [l.node[n].area EXCEPT !.size = Size(l, n) + Size(l, NextOf(l, n))]
             /\ k.available = l.available - 1
<1> DEFINE k     == Merge(l, n)
           next  == NextOf(l, n)
           after == NextOf(l, next)
           rec   == [l.node[n].area EXCEPT !.size = Size(l, n) + Size(l, next)]
<1>1. /\ next \in InList(l) /\ next # n /\ next # l.head
      /\ Base(l, next) = Limit(l, n) /\ PrevOf(l, next) = n
  BY NextFacts
<1>2. /\ after = Null => Limit(l, next) = MemorySize
      /\ after # Null => /\ after \in InList(l) /\ after # next /\ after # l.head
                         /\ Base(l, after) = Limit(l, next)
                         /\ PrevOf(l, after) = next
  BY <1>1, NextFacts
<1>3. /\ l.head \in InList(l) /\ Base(l, l.head) = OffScreenBase
      /\ after = Null => PrevOf(l, l.head) = next
  BY <1>1 DEF ListOK, Linked
<1> HIDE DEF after
<1>4. /\ k.head = l.head /\ k.available = l.available - 1
      /\ InList(k) = InList(l) \ {next}
      /\ \A m \in InList(k) :
           k.node[m] = Node(Base(l, m), IF m = n THEN rec ELSE l.node[m].area,
                            IF m = n THEN after ELSE NextOf(l, m),
                            IF m = (IF after # Null THEN after ELSE l.head) THEN n
                            ELSE PrevOf(l, m))
  BY DEF Merge, PointsBack, InList, after
<1>5. n \in InList(k) /\ l.head \in InList(k) /\ (after # Null => after \in InList(k))
  BY <1>1, <1>2, <1>3, <1>4
<1>6. \A m \in InList(k) :
        /\ m \in InList(l) /\ m # next
        /\ Base(k, m) = Base(l, m)
        /\ k.node[m].area = IF m = n THEN rec ELSE l.node[m].area
        /\ NextOf(k, m) = IF m = n THEN after ELSE NextOf(l, m)
        /\ PrevOf(k, m) = IF m = (IF after # Null THEN after ELSE l.head) THEN n
                          ELSE PrevOf(l, m)
  BY <1>4, NodeFields DEF Base, NextOf, PrevOf
<1>7. /\ rec \in Area /\ rec.size = Size(l, n) + Size(l, next) /\ Blank(rec)
      /\ rec.state = State(l, n)
  BY <1>1, NodeFacts DEF Area, Blank, State, Size
<1> HIDE DEF k, rec
<1>8. \A m \in InList(k) : /\ m # n => Limit(k, m) = Limit(l, m)
                           /\ m = n => Limit(k, m) = Limit(l, next)
  BY <1>1, <1>6, <1>7, NodeFacts DEF Limit, Size
<1>9. \A m \in InList(k) : k.node[m] \in Record /\ Blank(k.node[m].area)
  <2> SUFFICES ASSUME NEW m \in InList(k)
               PROVE  k.node[m] \in Record /\ Blank(k.node[m].area)
    OBVIOUS
  <2>1. /\ Base(l, m) \in OffScreenBase .. MemorySize - 1
        /\ l.node[m].area \in Area /\ Blank(l.node[m].area)
        /\ NextOf(l, m) \in Records \cup {Null} /\ PrevOf(l, m) \in Records \cup {Null}
    BY <1>6, NodeFacts
  <2>2. after \in Records \cup {Null} /\ n \in Records
    BY <1>2, NodeFacts
  <2>3. k.node[m].area \in Area /\ Blank(k.node[m].area)
    BY <1>6, <1>7, <2>1
  <2>4. PICK a, b, c : k.node[m] = Node(Base(l, m), a, b, c) /\ a \in Area
                         /\ b \in Records \cup {Null} /\ c \in Records \cup {Null}
    BY <1>4, <1>7, <2>1, <2>2
  <2> QED
    BY <2>1, <2>3, <2>4, NodeFields
<1>10. k.node \in [InList(k) -> Record]
  <2>1. k.node = [m \in InList(k) |-> k.node[m]]
    BY DEF k, Merge, InList
  <2> QED
    BY <1>9, <2>1
<1>11. Linked(k)
  <2>1. k.head \in InList(k) /\ Base(k, k.head) = OffScreenBase
    BY <1>3, <1>4, <1>5, <1>6
  <2>2. ASSUME NEW m \in InList(k)
        PROVE  IF NextOf(k, m) = Null
               THEN Limit(k, m) = MemorySize /\ PrevOf(k, k.head) = m
               ELSE /\ NextOf(k, m) \in InList(k)
                    /\ Base(k, NextOf(k, m)) = Limit(k, m)
                    /\ PrevOf(k, NextOf(k, m)) = m
    <3>1. CASE m = n
      BY <1>2, <1>4, <1>5, <1>6, <1>8, <3>1
    <3>2. CASE m # n
      <4>1. NextOf(k, m) = NextOf(l, m) /\ Limit(k, m) = Limit(l, m)
        BY <1>6, <1>8, <3>2
      <4>2. CASE NextOf(l, m) = Null
        <5>1. Limit(l, m) = MemorySize /\ PrevOf(l, l.head) = m
          BY <1>6, <4>2 DEF ListOK, Linked
        <5>2. after # Null
          BY <1>3, <1>6, <5>1
        <5> QED
          BY <1>2, <1>4, <1>5, <1>6, <4>1, <4>2, <5>1, <5>2
      <4>3. CASE NextOf(l, m) # Null
        <5>1. /\ NextOf(l, m) \in InList(l) /\ Base(l, NextOf(l, m)) = Limit(l, m)
              /\ PrevOf(l, NextOf(l, m)) = m /\ NextOf(l, m) # l.head
          BY <1>6, <4>3, NextFacts
        <5>2. NextOf(l, m) # next /\ NextOf(l, m) # after
          BY <1>1, <1>2, <1>6, <3>2, <4>3, <5>1
        <5> QED
          BY <1>4, <1>6, <4>1, <4>3, <5>1, <5>2
      <4> QED
        BY <4>2, <4>3
    <3> QED
      BY <3>1, <3>2
  <2>3. ASSUME NEW m \in InList(k), m # k.head
        PROVE  PrevOf(k, m) \in InList(k) /\ NextOf(k, PrevOf(k, m)) = m
    <3>1. CASE m = after
      BY <1>2, <1>5, <1>6, <2>3, <3>1, NodeFacts
    <3>2. CASE m # after
      <4>1. PrevOf(k, m) = PrevOf(l, m)
        BY <1>4, <1>6, <2>3, <3>2
      <4>2. PrevOf(l, m) \in InList(l) /\ NextOf(l, PrevOf(l, m)) = m
        BY <1>4, <1>6, <2>3 DEF ListOK, Linked
      <4>3. PrevOf(l, m) # next /\ PrevOf(l, m) # n
        BY <1>6, <3>2, <4>2 DEF after
      <4> QED
        BY <1>4, <1>6, <4>1, <4>2, <4>3
    <3> QED
      BY <3>1, <3>2
  <2>4. ASSUME NEW m \in InList(k), NEW j \in InList(k), m # j
        PROVE  Limit(k, m) <= Base(k, j) \/ Limit(k, j) <= Base(k, m)
    <3>1. /\ m \in InList(l) /\ j \in InList(l) /\ m # next /\ j # next
          /\ Base(k, m) = Base(l, m) /\ Base(k, j) = Base(l, j)
      BY <1>6
    <3>2. Limit(l, m) <= Base(l, j) \/ Limit(l, j) <= Base(l, m)
      BY <2>4, <3>1, BasesDiffer
    <3>3. /\ Limit(l, m) <= Base(l, next) \/ Limit(l, next) <= Base(l, m)
          /\ Limit(l, j) <= Base(l, next) \/ Limit(l, next) <= Base(l, j)
      BY <1>1, <3>1, BasesDiffer
    <3>4. /\ Base(l, m) \in Nat /\ Limit(l, m) \in Nat /\ Base(l, m) < Limit(l, m)
          /\ Base(l, j) \in Nat /\ Limit(l, j) \in Nat /\ Base(l, j) < Limit(l, j)
          /\ Base(l, next) \in Nat /\ Limit(l, next) \in Nat
          /\ Base(l, next) < Limit(l, next)
          /\ Base(l, n) \in Nat /\ Base(l, n) < Limit(l, n)
      BY <1>1, <3>1, NodeFacts
    <3>5. CASE m = n
      BY <1>1, <1>8, <2>4, <3>1, <3>2, <3>3, <3>4, <3>5
    <3>6. CASE j = n
      BY <1>1, <1>8, <2>4, <3>1, <3>2, <3>3, <3>4, <3>6
    <3>7. CASE m # n /\ j # n
      BY <1>8, <2>4, <3>1, <3>2, <3>7
    <3> QED
      BY <3>5, <3>6, <3>7
  <2> QED
    BY <2>1, <2>2, <2>3, <2>4 DEF Linked
<1>12. ListOK(k)
  <2>1. InList(k) \subseteq Records /\ k.available \in Int
    BY <1>4 DEF ListOK
  <2> QED
    BY <1>9, <1>10, <1>11, <2>1 DEF ListOK
<1>13. \A m \in InList(k) : m # n =>
         k.node[m].area = l.node[m].area /\ NextOf(k, m) = NextOf(l, m)
  BY <1>6
<1> QED
  BY <1>4, <1>5, <1>6, <1>12, <1>13 DEF k, rec

\* A list in which one area gets another record of the same size.
LEMMA RewriteShape ==
  ASSUME NEW l, ListOK(l), NEW n \in InList(l),
         NEW a \in Area, a.size = Size(l, n), Blank(a),
         NEW k, k.head = l.head, k.available \in Int,
         k.node = [m \in InList(l) |->
                     IF m = n THEN Node(Base(l, n), a, NextOf(l, n), PrevOf(l, n))
                     ELSE l.node[m]]
  PROVE  /\ ListOK(k) /\ InList(k) = InList(l)
         /\ \A m \in InList(l) : /\ Base(k, m) = Base(l, m)
                                 /\ NextOf(k, m) = NextOf(l, m)
                                 /\ Limit(k, m) = Limit(l, m)
         /\ \A m \in InList(l) : m # n => k.node[m].area = l.node[m].area
         /\ k.node[n].area = a
<1>1. /\ InList(k) = InList(l)
      /\ \A m \in InList(l) :
           k.node[m] = IF m = n THEN Node(Base(l, n), a, NextOf(l, n), PrevOf(l, n))
                       ELSE l.node[m]
  BY DEF InList
<1>2. \A m \in InList(l) :
        /\ Base(k, m) = Base(l, m) /\ NextOf(k, m) = NextOf(l, m)
        /\ PrevOf(k, m) = PrevOf(l, m) /\ Limit(k, m) = Limit(l, m)
        /\ k.node[m].area = IF m = n THEN a ELSE l.node[m].area
        /\ k.node[m] \in Record /\ Blank(k.node[m].area)
  <2> SUFFICES ASSUME NEW m \in InList(l)
      PROVE /\ Base(k, m) = Base(l, m) /\ NextOf(k, m) = NextOf(l, m)
            /\ PrevOf(k, m) = PrevOf(l, m) /\ Limit(k, m) = Limit(l, m)
            /\ k.node[m].area = IF m = n THEN a ELSE l.node[m].area
            /\ k.node[m] \in Record /\ Blank(k.node[m].area)
    OBVIOUS
  <2>1. CASE m = n
    <3>1. k.node[n] = Node(Base(l, n), a, NextOf(l, n), PrevOf(l, n))
      BY <1>1
    <3>2. /\ Base(k, n) = Base(l, n) /\ NextOf(k, n) = NextOf(l, n)
          /\ PrevOf(k, n) = PrevOf(l, n) /\ k.node[n].area = a
      BY <3>1, NodeFields DEF Base, NextOf, PrevOf
    <3>3. k.node[n] \in Record
      BY <3>1, NodeFacts, NodeFields
    <3>4. Limit(k, n) = Limit(l, n)
      BY <3>2 DEF Limit, Size
    <3> QED
      BY <2>1, <3>2, <3>3, <3>4
  <2>2. CASE m # n
    BY <1>1, <2>2 DEF Base, NextOf, PrevOf, Limit, Size, ListOK
  <2> QED
    BY <2>1, <2>2
<1>3. k.node \in [InList(k) -> Record]
  <2>1. k.node = [m \in InList(k) |-> k.node[m]]
    BY DEF InList
  <2> QED
    BY <1>1, <1>2, <2>1
<1>4. Linked(k)
  <2>1. Linked(l)
    BY DEF ListOK
  <2>2. k.head \in InList(k) /\ Base(k, k.head) = OffScreenBase
    BY <1>1, <1>2, <2>1 DEF Linked
  <2>3. \A m \in InList(k) :
          /\ IF NextOf(k, m) = Null
             THEN Limit(k, m) = MemorySize /\ PrevOf(k, k.head) = m
             ELSE /\ NextOf(k, m) \in InList(k)
                  /\ Base(k, NextOf(k, m)) = Limit(k, m)
                  /\ PrevOf(k, NextOf(k, m)) = m
          /\ m # k.head => /\ PrevOf(k, m) \in InList(k)
                           /\ NextOf(k, PrevOf(k, m)) = m
    BY <1>1, <1>2, <2>1 DEF Linked
  <2>4. \A m, j \in InList(k) :
          m # j => Limit(k, m) <= Base(k, j) \/ Limit(k, j) <= Base(k, m)
    BY <1>1, <1>2, <2>1 DEF Linked
  <2> QED
    BY <2>2, <2>3, <2>4 DEF Linked
<1>5. ListOK(k)
  BY <1>1, <1>2, <1>3, <1>4 DEF ListOK
<1> QED
  BY <1>1, <1>2, <1>5

LEMMA Erased ==
  ASSUME NEW a \in Area
  PROVE  [a EXCEPT !.state = Avail, !.last_use = 0, !.want = 0] =
           [size |-> a.size, state |-> Avail, offset |-> a.offset,
            align |-> a.align, last_use |-> 0, want |-> 0]
<1>1. a = [size |-> a.size, state |-> a.state, offset |-> a.offset,
           align |-> a.align, last_use |-> a.last_use, want |-> a.want]
  BY DEF Area
<1> DEFINE b == [a EXCEPT !.state = Avail]
           c == [b EXCEPT !.last_use = 0]
<1>2. b = [size |-> a.size, state |-> Avail, offset |-> a.offset,
           align |-> a.align, last_use |-> a.last_use, want |-> a.want]
  BY <1>1
<1> HIDE DEF b
<1>3. c = [size |-> a.size, state |-> Avail, offset |-> a.offset,
           align |-> a.align, last_use |-> 0, want |-> a.want]
  BY <1>2
<1> HIDE DEF c
<1>4. [c EXCEPT !.want = 0] =
        [size |-> a.size, state |-> Avail, offset |-> a.offset,
         align |-> a.align, last_use |-> 0, want |-> 0]
  BY <1>3
<1> QED
  BY <1>4 DEF b, c

LEMMA MarkedShape ==
  ASSUME NEW l, ListOK(l), NEW n \in InList(l)
  PROVE  LET k == Marked(l, n)
         IN  /\ ListOK(k) /\ k.head = l.head /\ InList(k) = InList(l)
             /\ \A m \in InList(l) : /\ Base(k, m) = Base(l, m)
                                     /\ NextOf(k, m) = NextOf(l, m)
                                     /\ Limit(k, m) = Limit(l, m)
             /\ \A m \in InList(l) : m # n => k.node[m].area = l.node[m].area
             /\ k.node[n].area = Hole(Base(l, n), Limit(l, n),
                                     l.node[n].area.offset, l.node[n].area.align)
             /\ k.available = l.available + 1
<1> DEFINE k   == Marked(l, n)
           rec == [l.node[n].area EXCEPT !.state = Avail, !.last_use = 0, !.want = 0]
<1>1. /\ rec \in Area /\ rec.size = Size(l, n) /\ Blank(rec)
      /\ rec = Hole(Base(l, n), Limit(l, n),
                    l.node[n].area.offset, l.node[n].area.align)
  <2>1. /\ l.node[n].area \in Area /\ Size(l, n) = l.node[n].area.size
        /\ Size(l, n) \in Nat \ {0} /\ Base(l, n) \in Nat
        /\ Limit(l, n) - Base(l, n) = Size(l, n)
    BY NodeFacts DEF Size, Limit
  <2>2. rec = [size |-> Size(l, n), state |-> Avail,
               offset |-> l.node[n].area.offset, align |-> l.node[n].area.align,
               last_use |-> 0, want |-> 0]
    BY <2>1, Erased
  <2>3. l.node[n].area.offset \in Nat /\ l.node[n].area.align \in Nat
    BY <2>1 DEF Area
  <2> QED
    BY <2>1, <2>2, <2>3, CounterAssumption DEF Hole, Area, Blank, States
<1>2. /\ k.head = l.head /\ k.available = l.available + 1
      /\ k.node = [m \in InList(l) |->
                     IF m = n THEN Node(Base(l, n), rec, NextOf(l, n), PrevOf(l, n))
                     ELSE l.node[m]]
  BY DEF Marked
<1>3. k.available \in Int
  BY <1>2 DEF ListOK
<1> HIDE DEF rec, k
<1>4. /\ ListOK(k) /\ InList(k) = InList(l)
      /\ \A m \in InList(l) : /\ Base(k, m) = Base(l, m)
                              /\ NextOf(k, m) = NextOf(l, m)
                              /\ Limit(k, m) = Limit(l, m)
      /\ \A m \in InList(l) : m # n => k.node[m].area = l.node[m].area
      /\ k.node[n].area = rec
  BY <1>1, <1>2, <1>3, RewriteShape
<1> QED
  BY <1>1, <1>2, <1>4 DEF k

\* Where the free area ends that n becomes part of.
FreedLimit(l, n) ==
  IF MergesAhead(l, n) THEN Limit(l, NextOf(l, n)) ELSE Limit(l, n)

LEMMA FreedShape ==
  ASSUME NEW l, ListOK(l), NEW n \in InList(l)
  PROVE  LET k  == Freed(l, n)
             s  == Survivor(l, n)
             lo == Base(l, s)
             hi == FreedLimit(l, n)
         IN  /\ ListOK(k) /\ k.head = l.head
             /\ s \in InList(l) /\ s \in InList(k)
             /\ InList(k) = {m \in InList(l) : Base(l, m) <= lo \/ hi <= Base(l, m)}
             /\ \A m \in InList(k) : Base(k, m) = Base(l, m)
             /\ \A m \in InList(k) : m # s => k.node[m].area = l.node[m].area
             /\ k.node[s].area = Hole(lo, hi, l.node[s].area.offset,
                                     l.node[s].area.align)
             /\ k.available = l.available + 1
                                - (IF MergesAhead(l, n) THEN 1 ELSE 0)
                                - (IF MergesBack(l, n) THEN 1 ELSE 0)
<1> DEFINE k1   == Marked(l, n)
           k2   == IF MergesAhead(l, n) THEN Merge(k1, n) ELSE k1
           k3   == Freed(l, n)
           next == NextOf(l, n)
           prev == Before(l, n)
           hi   == FreedLimit(l, n)
           gone == IF MergesAhead(l, n) THEN {next} ELSE {}
<1>1. /\ ListOK(k1) /\ k1.head = l.head /\ InList(k1) = InList(l)
      /\ \A m \in InList(l) : /\ Base(k1, m) = Base(l, m)
                              /\ NextOf(k1, m) = NextOf(l, m)
                              /\ Limit(k1, m) = Limit(l, m)
      /\ \A m \in InList(l) : m # n => k1.node[m].area = l.node[m].area
      /\ k1.node[n].area = Hole(Base(l, n), Limit(l, n),
                               l.node[n].area.offset, l.node[n].area.align)
      /\ k1.available = l.available + 1
  BY MarkedShape
<1> HIDE DEF k1
<1>2. MergesAhead(l, n) =>
        /\ next \in InList(l) /\ next # n /\ next # l.head
        /\ Base(l, next) = Limit(l, n) /\ IsAvail(l, next) /\ next # Null
  BY NextFacts DEF MergesAhead
<1>3. MergesBack(l, n) =>
        /\ prev \in InList(l) /\ prev # n /\ NextOf(l, prev) = n
        /\ Limit(l, prev) = Base(l, n) /\ IsAvail(l, prev)
        /\ n # l.head /\ n # Null
  <2>1. SUFFICES ASSUME MergesBack(l, n)
        PROVE /\ prev \in InList(l) /\ prev # n /\ NextOf(l, prev) = n
              /\ Limit(l, prev) = Base(l, n) /\ IsAvail(l, prev)
              /\ n # l.head /\ n # Null
    OBVIOUS
  <2>2. n # l.head /\ prev = PrevOf(l, n) /\ IsAvail(l, prev)
    BY <2>1 DEF MergesBack, Before
  <2>3. prev \in InList(l) /\ NextOf(l, prev) = n /\ n # Null
    BY <2>2, NodeFacts DEF ListOK, Linked
  <2> QED
    BY <2>2, <2>3, NextFacts
<1>4. hi \in Nat /\ Base(l, n) < hi
  BY <1>2, NodeFacts DEF FreedLimit
<1>5. /\ ListOK(k2) /\ k2.head = l.head
      /\ InList(k2) = InList(l) \ gone /\ n \in InList(k2)
      /\ \A m \in InList(k2) : Base(k2, m) = Base(l, m)
      /\ \A m \in InList(k2) : m # n =>
           k2.node[m].area = l.node[m].area /\ NextOf(k2, m) = NextOf(l, m)
      /\ k2.node[n].area = Hole(Base(l, n), hi,
                               l.node[n].area.offset, l.node[n].area.align)
      /\ k2.available = l.available + 1 - (IF MergesAhead(l, n) THEN 1 ELSE 0)
  <2>1. CASE ~ MergesAhead(l, n)
    BY <1>1, <2>1, NodeFacts DEF FreedLimit, ListOK
  <2>2. CASE MergesAhead(l, n)
    <3>1. NextOf(k1, n) = next /\ IsAvail(k1, next)
      BY <1>1, <1>2, <2>2 DEF IsAvail, State
    <3>2. /\ ListOK(k2) /\ k2.head = l.head
          /\ InList(k2) = InList(l) \ {next}
          /\ \A m \in InList(k2) : Base(k2, m) = Base(k1, m)
          /\ \A m \in InList(k2) : m # n =>
               k2.node[m].area = k1.node[m].area /\ NextOf(k2, m) = NextOf(k1, m)
          /\ k2.node[n].area =
               [k1.node[n].area EXCEPT !.size = Size(k1, n) + Size(k1, next)]
          /\ k2.available = k1.available - 1
      BY <1>1, <1>2, <2>2, <3>1, MergeShape
    <3>3. Size(k1, n) + Size(k1, next) = hi - Base(l, n)
      <4>1. /\ Size(k1, n) = Limit(l, n) - Base(l, n)
            /\ Size(k1, next) = Size(l, next)
        BY <1>1, <1>2, <2>2 DEF Size, Hole
      <4>2. hi = Limit(l, n) + Size(l, next)
        BY <1>2, <2>2 DEF FreedLimit, Limit
      <4> QED
        BY <1>2, <2>2, <4>1, <4>2, NodeFacts
    <3>4. k2.node[n].area = Hole(Base(l, n), hi,
                               l.node[n].area.offset, l.node[n].area.align)
      BY <1>1, <3>2, <3>3 DEF Hole
    <3>5. k2.available = l.available + 1 - 1
      <4>1. k2.available = k1.available - 1 /\ k1.available = l.available + 1
        BY <1>1, <3>2
      <4>2. l.available \in Int
        BY DEF ListOK
      <4> HIDE DEF k2
      <4> QED
        BY <4>1, <4>2
    <3> QED
      BY <1>1, <1>2, <2>2, <3>2, <3>4, <3>5
  <2> QED
    BY <2>1, <2>2
<1>6. k3 = IF MergesBack(l, n) THEN Merge(k2, prev) ELSE k2
  BY DEF Freed, k1
<1>7. \A m \in InList(l) : m # n /\ m \notin gone =>
        Limit(l, m) <= Base(l, n) \/ hi <= Base(l, m)
  <2> SUFFICES ASSUME NEW m \in InList(l), m # n, m \notin gone
               PROVE  Limit(l, m) <= Base(l, n) \/ hi <= Base(l, m)
    OBVIOUS
  <2>1. Limit(l, m) <= Base(l, n) \/ Limit(l, n) <= Base(l, m)
    BY BasesDiffer
  <2>2. CASE ~ MergesAhead(l, n)
    BY <2>1, <2>2 DEF FreedLimit
  <2>3. CASE MergesAhead(l, n)
    <3>1. Limit(l, m) <= Base(l, next) \/ Limit(l, next) <= Base(l, m)
      BY <1>2, <2>3, BasesDiffer
    <3> QED
      BY <1>2, <2>1, <2>3, <3>1, NodeFacts DEF FreedLimit
  <2> QED
    BY <2>2, <2>3
<1>8. \A m \in gone : /\ m \in InList(l) /\ m # n
                      /\ Base(l, n) < Base(l, m) /\ Base(l, m) < hi
  BY <1>2, NodeFacts DEF FreedLimit
<1> HIDE DEF k2, k3, hi, gone
<1>9. CASE ~ MergesBack(l, n)
  <2>1. Survivor(l, n) = n /\ k3 = k2
    BY <1>6, <1>9 DEF Survivor
  <2>2. InList(k2) = {m \in InList(l) : Base(l, m) <= Base(l, n) \/ hi <= Base(l, m)}
    BY <1>4, <1>5, <1>7, <1>8, NodeFacts
  <2>3. k2.available = l.available + 1 - (IF MergesAhead(l, n) THEN 1 ELSE 0) - 0
    BY <1>5 DEF ListOK
  <2> QED
    BY <1>5, <1>9, <2>1, <2>2, <2>3 DEF k3, hi
<1>10. CASE MergesBack(l, n)
  <2>1. Survivor(l, n) = prev
    BY <1>10 DEF Survivor
  <2>2. prev \in InList(k2) /\ NextOf(k2, prev) = n /\ IsAvail(k2, n)
    <3>1. prev \notin gone
      BY <1>3, <1>8, <1>10, NodeFacts
    <3> QED
      BY <1>3, <1>5, <1>10, <3>1 DEF IsAvail, State, Hole
  <2>3. /\ ListOK(k3) /\ k3.head = l.head
        /\ InList(k3) = InList(k2) \ {n}
        /\ \A m \in InList(k3) : Base(k3, m) = Base(k2, m)
        /\ \A m \in InList(k3) : m # prev => k3.node[m].area = k2.node[m].area
        /\ k3.node[prev].area =
             [k2.node[prev].area EXCEPT !.size = Size(k2, prev) + Size(k2, n)]
        /\ k3.available = k2.available - 1
    BY <1>3, <1>5, <1>6, <1>10, <2>2, MergeShape
  <2>4. InList(k3) = {m \in InList(l) : Base(l, m) <= Base(l, prev) \/ hi <= Base(l, m)}
    <3>1. ASSUME NEW m \in InList(k3)
          PROVE  m \in InList(l) /\ (Base(l, m) <= Base(l, prev) \/ hi <= Base(l, m))
      <4>1. m \in InList(l) /\ m # n /\ m \notin gone
        BY <1>5, <2>3
      <4>2. Limit(l, m) <= Base(l, n) \/ hi <= Base(l, m)
        BY <1>7, <4>1
      <4>3. m # prev => Limit(l, m) <= Base(l, prev) \/ Limit(l, prev) <= Base(l, m)
        BY <1>3, <1>10, <4>1, BasesDiffer
      <4> QED
        BY <1>3, <1>10, <4>1, <4>2, <4>3, NodeFacts
    <3>2. ASSUME NEW m \in InList(l), Base(l, m) <= Base(l, prev) \/ hi <= Base(l, m)
          PROVE  m \in InList(k3)
      BY <1>3, <1>4, <1>5, <1>8, <1>10, <2>3, <3>2, NodeFacts
    <3> QED
      BY <3>1, <3>2
  <2>5. k3.node[prev].area = Hole(Base(l, prev), hi, l.node[prev].area.offset,
                                  l.node[prev].area.align)
    <3> DEFINE a == l.node[prev].area
    <3>1. /\ a \in Area /\ a.state = Avail /\ Blank(a)
          /\ k2.node[prev].area = a
      BY <1>3, <1>5, <1>10, <2>2, NodeFacts DEF IsAvail, State
    <3>2. Size(k2, prev) + Size(k2, n) = hi - Base(l, prev)
      <4>1. Size(k2, prev) = Size(l, prev) /\ Size(k2, n) = hi - Base(l, n)
        BY <1>5, <3>1 DEF Size, Hole
      <4>2. Base(l, n) = Base(l, prev) + Size(l, prev)
        BY <1>3, <1>10 DEF Limit
      <4> QED
        BY <1>3, <1>4, <1>10, <4>1, <4>2, NodeFacts
    <3>3. k3.node[prev].area = [a EXCEPT !.size = hi - Base(l, prev)]
      BY <2>3, <3>1, <3>2
    <3> HIDE DEF a
    <3>4. k3.node[prev].area =
            [size |-> hi - Base(l, prev), state |-> Avail, offset |-> a.offset,
             align |-> a.align, last_use |-> 0, want |-> 0]
      BY <3>1, <3>3 DEF Area, Blank
    <3> QED
      BY <3>4 DEF Hole, a
  <2>6. prev \in InList(k3)
    BY <1>3, <1>10, <2>2, <2>3
  <2>7. \A m \in InList(k3) : m # prev => k3.node[m].area = l.node[m].area
    BY <1>5, <2>3
  <2>8. k3.available = l.available + 1 - (IF MergesAhead(l, n) THEN 1 ELSE 0) - 1
    <3>1. l.available \in Int
      BY DEF ListOK
    <3>2. /\ k2.available = l.available + 1 - (IF MergesAhead(l, n) THEN 1 ELSE 0)
          /\ k3.available = k2.available - 1
      BY <1>5, <2>3
    <3> QED
      BY <3>1, <3>2
  <2> QED
    BY <1>3, <1>5, <1>10, <2>1, <2>3, <2>4, <2>5, <2>6, <2>7, <2>8 DEF k3, hi
<1> QED
  BY <1>9, <1>10

-----------------------------------------------------------------------------
(* What kicking out does to the areas. *)

LEMMA DisjointCount ==
  ASSUME NEW S, IsFiniteSet(S), NEW T, IsFiniteSet(T), S \cap T = {}
  PROVE  Cardinality(S \cup T) = Cardinality(S) + Cardinality(T)
<1>1. /\ Cardinality(S \cup T) =
           Cardinality(S) + Cardinality(T) - Cardinality(S \cap T)
      /\ Cardinality(S) \in Nat /\ Cardinality(T) \in Nat
  BY FS_Union, FS_CardinalityType
<1>2. Cardinality(S \cap T) = 0
  BY FS_EmptySet
<1> QED
  BY <1>1, <1>2

\* The free areas that freeing b merges with it.
LEMMA FreedCount ==
  ASSUME Layout, NEW b \in Used
  PROVE  Cardinality(FreeIn(LeftEdge(b), RightEdge(b))) =
           (IF EndOf(b) \in FreeAreas THEN 1 ELSE 0)
             + (IF \E p \in FreeAreas : EndOf(p) = b THEN 1 ELSE 0)
<1> DEFINE lo    == LeftEdge(b)
           hi    == RightEdge(b)
           ahead == IF EndOf(b) \in FreeAreas THEN {EndOf(b)} ELSE {}
           back  == IF \E p \in FreeAreas : EndOf(p) = b THEN {lo} ELSE {}
<1>1. b \in DOMAIN areas /\ b \notin FreeAreas /\ FreeAreas \subseteq DOMAIN areas
  BY AreaFacts DEF Layout, Used, FreeAreas
<1>2. \A c \in DOMAIN areas :
        /\ c \in Nat /\ EndOf(c) \in Nat /\ c < EndOf(c)
        /\ \A d \in DOMAIN areas : c < d => EndOf(c) <= d
  BY AreaFacts, NonEmpty DEF Layout, Tiling
<1>3. \A c \in ahead : c \in FreeAreas /\ b < c /\ c < hi
  BY <1>1, <1>2 DEF RightEdge
<1>4. \A c \in FreeAreas : b <= c /\ c < hi => c \in ahead
  <2> SUFFICES ASSUME NEW c \in FreeAreas, b <= c, c < hi PROVE c \in ahead
    OBVIOUS
  <2>1. c \in DOMAIN areas /\ b < c /\ EndOf(b) <= c
    BY <1>1, <1>2
  <2>2. CASE EndOf(b) \notin FreeAreas
    BY <1>1, <1>2, <2>1, <2>2 DEF RightEdge
  <2>3. CASE EndOf(b) \in FreeAreas
    <3>1. c < EndOf(EndOf(b))
      BY <2>3 DEF RightEdge
    <3>2. ~ EndOf(b) < c
      BY <1>1, <1>2, <2>1, <2>3, <3>1
    <3> QED
      BY <1>1, <1>2, <2>1, <2>3, <3>2
  <2> QED
    BY <2>2, <2>3
<1>5. \A c \in back : c \in FreeAreas /\ EndOf(c) = b /\ c < b
  <2>1. CASE \E p \in FreeAreas : EndOf(p) = b
    <3>1. lo \in FreeAreas /\ EndOf(lo) = b
      BY <2>1 DEF LeftEdge
    <3> QED
      BY <1>1, <1>2, <2>1, <3>1
  <2>2. CASE ~ \E p \in FreeAreas : EndOf(p) = b
    BY <2>2
  <2> QED
    BY <2>1, <2>2
<1>6. \A c \in FreeAreas : lo <= c /\ c < b => c \in back
  <2>1. CASE \E p \in FreeAreas : EndOf(p) = b
    <3>1. lo \in FreeAreas /\ EndOf(lo) = b
      BY <2>1 DEF LeftEdge
    <3> QED
      BY <1>1, <1>2, <2>1, <3>1
  <2>2. CASE ~ \E p \in FreeAreas : EndOf(p) = b
    BY <1>1, <1>2, <2>2 DEF LeftEdge
  <2> QED
    BY <2>1, <2>2
<1>7. lo \in Nat /\ lo <= b /\ b < hi /\ hi \in Nat
  <2>1. Block(lo, hi) /\ lo <= b /\ EndOf(b) <= hi
    BY FreedBlock
  <2> QED
    BY <1>1, <1>2, <2>1, PoolAssumption DEF Block
<1>8. \A c \in back : c = lo
  OBVIOUS
<1> HIDE DEF lo, hi, ahead, back
<1>9. FreeIn(lo, hi) = ahead \cup back
  BY <1>1, <1>2, <1>3, <1>4, <1>5, <1>6, <1>7, <1>8 DEF FreeIn
<1>10. ahead \cap back = {}
  BY <1>1, <1>2, <1>3, <1>5
<1>11. /\ IsFiniteSet(ahead)
       /\ Cardinality(ahead) = IF EndOf(b) \in FreeAreas THEN 1 ELSE 0
  BY FS_EmptySet, FS_Singleton DEF ahead
<1>12. /\ IsFiniteSet(back)
       /\ Cardinality(back) = IF \E p \in FreeAreas : EndOf(p) = b THEN 1 ELSE 0
  BY FS_EmptySet, FS_Singleton DEF back
<1>13. Cardinality(ahead \cup back) = Cardinality(ahead) + Cardinality(back)
  BY <1>10, <1>11, <1>12, DisjointCount
<1> QED
  BY <1>9, <1>11, <1>12, <1>13 DEF lo, hi

\* A block grows by the area after it, and by a free one after that.
LEMMA BlockGrows ==
  ASSUME Layout, NEW lo, NEW hi, Block(lo, hi), hi # MemorySize
  PROVE  /\ hi \in Used /\ hi < RightEdge(hi)
         /\ Block(lo, RightEdge(hi))
         /\ Cardinality(FreeIn(lo, RightEdge(hi))) =
              Cardinality(FreeIn(lo, hi))
                + (IF EndOf(hi) \in FreeAreas THEN 1 ELSE 0)
<1> DEFINE top   == RightEdge(hi)
           ahead == IF EndOf(hi) \in FreeAreas THEN {EndOf(hi)} ELSE {}
<1>1. /\ lo \in DOMAIN areas /\ hi \in DOMAIN areas /\ lo < hi /\ hi \in Used
      /\ hi \notin FreeAreas
  BY AreaFacts DEF Block, Layout
<1>2. FreeAreas \subseteq DOMAIN areas
  BY DEF FreeAreas
<1>3. \A c \in DOMAIN areas :
        /\ c \in Nat /\ EndOf(c) \in Nat /\ c < EndOf(c)
        /\ \A d \in DOMAIN areas : c < d => EndOf(c) <= d
  BY <1>1, AreaFacts, NonEmpty DEF Layout, Tiling
<1>4. Block(LeftEdge(hi), top) /\ EndOf(hi) <= top
  BY <1>1, FreedBlock
<1>5. top \in Nat /\ hi < top
  BY <1>1, <1>3, <1>4, PoolAssumption DEF Block
<1>6. Block(lo, top)
  BY <1>1, <1>3, <1>4, <1>5 DEF Block
<1>7. \A c \in ahead : c \in FreeAreas /\ hi < c /\ c < top
  BY <1>1, <1>2, <1>3 DEF RightEdge
<1>8. \A c \in FreeAreas : hi <= c /\ c < top => c \in ahead
  <2> SUFFICES ASSUME NEW c \in FreeAreas, hi <= c, c < top PROVE c \in ahead
    OBVIOUS
  <2>1. c \in DOMAIN areas /\ hi < c /\ EndOf(hi) <= c
    BY <1>1, <1>2, <1>3
  <2>2. CASE EndOf(hi) \notin FreeAreas
    BY <1>1, <1>3, <2>1, <2>2 DEF RightEdge
  <2>3. CASE EndOf(hi) \in FreeAreas
    <3>1. c < EndOf(EndOf(hi))
      BY <2>3 DEF RightEdge
    <3>2. ~ EndOf(hi) < c
      BY <1>2, <1>3, <2>1, <2>3, <3>1
    <3> QED
      BY <1>2, <1>3, <2>1, <2>3, <3>2
  <2> QED
    BY <2>2, <2>3
<1>9. /\ IsFiniteSet(ahead)
      /\ Cardinality(ahead) = IF EndOf(hi) \in FreeAreas THEN 1 ELSE 0
  BY FS_EmptySet, FS_Singleton
<1> HIDE DEF top, ahead
<1>10. FreeIn(lo, top) = FreeIn(lo, hi) \cup ahead
  BY <1>1, <1>2, <1>3, <1>5, <1>7, <1>8 DEF FreeIn
<1>11. FreeIn(lo, hi) \cap ahead = {}
  BY <1>1, <1>2, <1>3, <1>7 DEF FreeIn
<1>12. IsFiniteSet(FreeIn(lo, hi))
  BY FreeFinite, FS_Subset DEF FreeIn, Layout
<1>13. Cardinality(FreeIn(lo, hi) \cup ahead) =
         Cardinality(FreeIn(lo, hi)) + Cardinality(ahead)
  BY <1>9, <1>11, <1>12, DisjointCount
<1> QED
  BY <1>1, <1>5, <1>6, <1>9, <1>10, <1>13 DEF top

\* A list that stands for the areas as they are.
LEMMA SettledFacts ==
  ASSUME TypeOK, NEW l, ListOK(l), AreasOf(l) = areas
  PROVE  /\ DOMAIN areas = {Base(l, n) : n \in InList(l)}
         /\ areas # NoAreas
         /\ \A n \in InList(l) :
              /\ Base(l, n) \in DOMAIN areas
              /\ areas[Base(l, n)] = l.node[n].area
              /\ areas[Base(l, n)].state = State(l, n)
              /\ EndOf(Base(l, n)) = Limit(l, n)
              /\ Base(l, n) \in FreeAreas <=> IsAvail(l, n)
              /\ Base(l, n) \in Used <=> ~ IsAvail(l, n)
<1>1. /\ DOMAIN areas = {Base(l, n) : n \in InList(l)}
      /\ \A n \in InList(l) : areas[Base(l, n)] = l.node[n].area
  BY AreasOfFacts
<1>2. l.head \in InList(l)
  BY DEF ListOK, Linked
<1>3. \A n \in InList(l) : Base(l, n) \in DOMAIN areas
  BY <1>1
<1>4. areas # NoAreas
  BY <1>2, <1>3, NonEmpty
<1>5. \A n \in InList(l) :
        /\ EndOf(Base(l, n)) = Limit(l, n)
        /\ areas[Base(l, n)].state = State(l, n)
        /\ Base(l, n) \in FreeAreas <=> IsAvail(l, n)
        /\ Base(l, n) \in Used <=> ~ IsAvail(l, n)
  BY <1>1, <1>3
  DEF EndOf, Limit, Size, FreeAreas, Used, IsFree, IsUsed, IsAvail, State
<1> QED
  BY <1>1, <1>3, <1>4, <1>5

LEMMA SettledEdges ==
  ASSUME Layout, NEW l, ListOK(l), AreasOf(l) = areas, NEW n \in InList(l)
  PROVE  /\ MergesAhead(l, n) <=> EndOf(Base(l, n)) \in FreeAreas
         /\ FreedLimit(l, n) = RightEdge(Base(l, n))
         /\ MergesBack(l, n) <=> \E p \in FreeAreas : EndOf(p) = Base(l, n)
         /\ Survivor(l, n) \in InList(l)
         /\ Base(l, Survivor(l, n)) = LeftEdge(Base(l, n))
<1> DEFINE b == Base(l, n)
<1>1. /\ DOMAIN areas = {Base(l, m) : m \in InList(l)}
      /\ FreeAreas \subseteq DOMAIN areas
      /\ \A m \in InList(l) :
           /\ EndOf(Base(l, m)) = Limit(l, m)
           /\ Base(l, m) \in FreeAreas <=> IsAvail(l, m)
  BY SettledFacts DEF Layout, FreeAreas
<1>2. /\ MergesAhead(l, n) <=> EndOf(b) \in FreeAreas
      /\ FreedLimit(l, n) = RightEdge(b)
  <2>1. CASE NextOf(l, n) = Null
    <3>1. EndOf(b) = MemorySize /\ MemorySize \notin DOMAIN areas
      BY <1>1, <2>1, NextFacts, AreaFacts DEF Layout
    <3> QED
      BY <1>1, <2>1, <3>1 DEF MergesAhead, FreedLimit, RightEdge
  <2>2. CASE NextOf(l, n) # Null
    <3>1. NextOf(l, n) \in InList(l) /\ Base(l, NextOf(l, n)) = EndOf(b)
      BY <1>1, <2>2, NextFacts
    <3>2. MergesAhead(l, n) <=> EndOf(b) \in FreeAreas
      BY <1>1, <2>2, <3>1 DEF MergesAhead
    <3> QED
      BY <1>1, <2>2, <3>1, <3>2 DEF FreedLimit, RightEdge
  <2> QED
    BY <2>1, <2>2
<1>3. CASE n = l.head
  <2>1. Before(l, n) = Null /\ b = OffScreenBase
    BY <1>3 DEF Before, ListOK, Linked
  <2>2. \A p \in FreeAreas : EndOf(p) # b
    BY <1>1, <2>1, AreaFacts, PoolAssumption DEF Layout
  <2> QED
    BY <1>2, <2>1, <2>2 DEF MergesBack, Survivor, LeftEdge
<1>4. CASE n # l.head
  <2> DEFINE q == PrevOf(l, n)
  <2>1. Before(l, n) = q /\ q \in InList(l) /\ NextOf(l, q) = n /\ n # Null
    BY <1>4, NodeFacts DEF Before, ListOK, Linked
  <2>2. q # Null /\ Limit(l, q) = b
    BY <2>1, NextFacts, NodeFacts
  <2> HIDE DEF q
  <2>3. \A p \in FreeAreas : EndOf(p) = b => p = Base(l, q)
    <3> SUFFICES ASSUME NEW p \in FreeAreas, EndOf(p) = b PROVE p = Base(l, q)
      OBVIOUS
    <3>1. PICK m \in InList(l) : p = Base(l, m)
      BY <1>1
    <3>2. Limit(l, m) = b
      BY <1>1, <3>1
    <3> QED
      BY <2>1, <2>2, <3>1, <3>2, BasesDiffer, NodeFacts
  <2>4. MergesBack(l, n) <=> \E p \in FreeAreas : EndOf(p) = b
    <3>1. MergesBack(l, n) <=> Base(l, q) \in FreeAreas
      BY <1>1, <2>1, <2>2 DEF MergesBack
    <3>2. EndOf(Base(l, q)) = b
      BY <1>1, <2>1, <2>2
    <3> QED
      BY <2>3, <3>1, <3>2
  <2>5. CASE MergesBack(l, n)
    <3>1. Survivor(l, n) = q
      BY <2>1, <2>5 DEF Survivor
    <3>2. LeftEdge(b) = Base(l, q)
      BY <2>3, <2>4, <2>5 DEF LeftEdge
    <3> QED
      BY <1>2, <2>1, <2>4, <3>1, <3>2
  <2>6. CASE ~ MergesBack(l, n)
    BY <1>2, <2>4, <2>6 DEF Survivor, LeftEdge
  <2> QED
    BY <2>5, <2>6
<1> QED
  BY <1>3, <1>4

\* A list that differs from the areas in one block that is merged stands for
\* the areas with that block merged.
LEMMA StandsForMerged ==
  ASSUME NEW l, ListOK(l), NEW s \in InList(l), NEW lo, NEW hi,
         lo \in DOMAIN areas, lo \in Nat, hi \in Nat, lo < hi,
         Base(l, s) = lo,
         {Base(l, m) : m \in InList(l)} =
           {c \in DOMAIN areas : c <= lo \/ hi <= c},
         \A m \in InList(l) : m # s => l.node[m].area = areas[Base(l, m)],
         l.node[s].area = Hole(lo, hi, areas[lo].offset, areas[lo].align)
  PROVE  AreasOf(l) = Coalesce(lo, hi)
<1> DEFINE D == {c \in DOMAIN areas : c <= lo \/ hi <= c}
           F == Coalesce(lo, hi)
<1>1. /\ F = [b \in DOMAIN F |-> F[b]] /\ DOMAIN F = D
      /\ F[lo] = Hole(lo, hi, areas[lo].offset, areas[lo].align)
      /\ \A c \in D : c # lo => F[c] = areas[c]
  BY DEF Coalesce
<1> HIDE DEF F
<1>2. \A m \in InList(l) : Base(l, m) \in D
  OBVIOUS
<1>3. \A m \in InList(l) : F[Base(l, m)] = l.node[m].area
  BY <1>1, <1>2, BasesDiffer
<1>4. DOMAIN F = {Base(l, n) : n \in InList(l)}
  BY <1>1
<1>5. AreasOf(l) = F
  BY <1>1, <1>3, <1>4, StandsFor
<1> QED
  BY <1>5 DEF F

\* Freeing a record frees its area.
LEMMA KickFirst ==
  ASSUME Layout, NEW l, ListOK(l), Settled(l), NEW n \in InList(l),
         ~ IsAvail(l, n)
  PROVE  /\ ListOK(Freed(l, n)) /\ Freed(l, n).head = l.head
         /\ Cleared(Freed(l, n), Survivor(l, n), RightEdge(Base(l, n)))
         /\ Base(Freed(l, n), Survivor(l, n)) = LeftEdge(Base(l, n))
<1> DEFINE b  == Base(l, n)
           s  == Survivor(l, n)
           k  == Freed(l, n)
           lo == LeftEdge(b)
           hi == RightEdge(b)
<1>1. AreasOf(l) = areas /\ l.available = numOffscreenAvailable
  BY DEF Settled
<1>2. b \in Used
  BY <1>1, SettledFacts DEF Layout
<1>3. Block(lo, hi)
  BY <1>2, FreedBlock
<1>4. /\ MergesAhead(l, n) <=> EndOf(b) \in FreeAreas
      /\ FreedLimit(l, n) = hi
      /\ MergesBack(l, n) <=> \E p \in FreeAreas : EndOf(p) = b
      /\ s \in InList(l) /\ Base(l, s) = lo
  BY <1>1, SettledEdges
<1>5. /\ ListOK(k) /\ k.head = l.head /\ s \in InList(k)
      /\ InList(k) = {m \in InList(l) : Base(l, m) <= lo \/ hi <= Base(l, m)}
      /\ \A m \in InList(k) : Base(k, m) = Base(l, m)
      /\ \A m \in InList(k) : m # s => k.node[m].area = l.node[m].area
      /\ k.node[s].area = Hole(lo, hi, l.node[s].area.offset, l.node[s].area.align)
      /\ k.available = l.available + 1
                         - (IF MergesAhead(l, n) THEN 1 ELSE 0)
                         - (IF MergesBack(l, n) THEN 1 ELSE 0)
  BY <1>4, FreedShape
<1> HIDE DEF k, s, lo, hi
<1>6. AreasOf(k) = Coalesce(lo, hi)
  <2>1. /\ DOMAIN areas = {Base(l, m) : m \in InList(l)}
        /\ \A m \in InList(l) : areas[Base(l, m)] = l.node[m].area
    BY <1>1, SettledFacts DEF Layout
  <2>2. {Base(k, m) : m \in InList(k)} =
          {c \in DOMAIN areas : c <= lo \/ hi <= c}
    BY <1>5, <2>1
  <2>3. /\ \A m \in InList(k) : m # s => k.node[m].area = areas[Base(k, m)]
        /\ k.node[s].area = Hole(lo, hi, areas[lo].offset, areas[lo].align)
        /\ Base(k, s) = lo
    BY <1>4, <1>5, <2>1
  <2>4. lo \in DOMAIN areas /\ lo \in Nat /\ hi \in Nat /\ lo < hi
    BY <1>3, AreaFacts, PoolAssumption DEF Block, Layout
  <2> QED
    BY <1>5, <2>2, <2>3, <2>4, StandsForMerged
<1>7. k.available = Recount(lo, hi)
  <2>1. Cardinality(FreeIn(lo, hi)) =
          (IF EndOf(b) \in FreeAreas THEN 1 ELSE 0)
             + (IF \E p \in FreeAreas : EndOf(p) = b THEN 1 ELSE 0)
    BY <1>2, FreedCount DEF lo, hi
  <2>2. numOffscreenAvailable \in Int
    BY DEF Layout, TypeOK
  <2> QED
    BY <1>1, <1>4, <1>5, <2>1, <2>2 DEF Recount
<1>8. Base(k, s) = lo
  BY <1>4, <1>5
<1> QED
  BY <1>3, <1>5, <1>6, <1>7, <1>8 DEF Cleared, k, s, lo, hi

LEMMA ClearedFacts ==
  ASSUME Layout, NEW l, ListOK(l), NEW n, NEW hi, Cleared(l, n, hi)
  PROVE  LET lo == Base(l, n)
         IN  /\ n \in InList(l)
             /\ lo \in DOMAIN areas /\ lo \in Nat /\ hi \in Nat /\ lo < hi
             /\ Block(lo, hi)
             /\ l.node[n].area = Hole(lo, hi, areas[lo].offset, areas[lo].align)
             /\ IsAvail(l, n) /\ Size(l, n) = hi - lo /\ Limit(l, n) = hi
             /\ {Base(l, m) : m \in InList(l)} =
                  {c \in DOMAIN areas : c <= lo \/ hi <= c}
             /\ \A m \in InList(l) : m # n => l.node[m].area = areas[Base(l, m)]
             /\ l.available = Recount(lo, hi)
<1> DEFINE lo == Base(l, n)
<1>1. /\ n \in InList(l) /\ Block(lo, hi) /\ AreasOf(l) = Coalesce(lo, hi)
      /\ l.available = Recount(lo, hi)
  BY DEF Cleared
<1>2. lo \in DOMAIN areas /\ lo \in Nat /\ hi \in Nat /\ lo < hi
  BY <1>1, AreaFacts, PoolAssumption DEF Block, Layout
<1>3. /\ DOMAIN AreasOf(l) = {Base(l, m) : m \in InList(l)}
      /\ \A m \in InList(l) : AreasOf(l)[Base(l, m)] = l.node[m].area
  BY AreasOfFacts
<1>4. \A m \in InList(l) : m # n => Base(l, m) # lo
  BY <1>1, BasesDiffer
<1> HIDE DEF lo
<1>5. {Base(l, m) : m \in InList(l)} = {c \in DOMAIN areas : c <= lo \/ hi <= c}
  BY <1>1, <1>3 DEF Coalesce
<1>6. lo \in {Base(l, m) : m \in InList(l)}
  BY <1>1 DEF lo
<1>7. AreasOf(l)[lo] = Hole(lo, hi, areas[lo].offset, areas[lo].align)
  BY <1>1, <1>3, <1>5, <1>6 DEF Coalesce
<1>8. l.node[n].area = Hole(lo, hi, areas[lo].offset, areas[lo].align)
  BY <1>1, <1>3, <1>7 DEF lo
<1>9. \A m \in InList(l) : m # n => l.node[m].area = areas[Base(l, m)]
  <2> SUFFICES ASSUME NEW m \in InList(l), m # n
               PROVE  l.node[m].area = areas[Base(l, m)]
    OBVIOUS
  <2>1. Base(l, m) \in {c \in DOMAIN areas : c <= lo \/ hi <= c}
    BY <1>5
  <2>2. AreasOf(l)[Base(l, m)] = areas[Base(l, m)]
    BY <1>1, <1>4, <2>1 DEF Coalesce
  <2> QED
    BY <1>3, <2>2
<1>10. IsAvail(l, n) /\ Size(l, n) = hi - lo
  BY <1>8 DEF IsAvail, State, Size, Hole
<1>11. Limit(l, n) = hi
  BY <1>2, <1>10 DEF Limit, lo
<1> QED
  BY <1>1, <1>2, <1>5, <1>8, <1>9, <1>10, <1>11 DEF lo

\* Freeing the record after a cleared stretch clears its area too.
LEMMA KickNext ==
  ASSUME Layout, NEW l, ListOK(l), NEW m, NEW hi, Cleared(l, m, hi),
         NextOf(l, m) # Null
  PROVE  LET n == NextOf(l, m)
             k == Freed(l, n)
         IN  /\ n \in InList(l) /\ Base(l, n) = hi /\ hi \in Used
             /\ l.node[n].area = areas[hi]
             /\ hi # MemorySize
             /\ ListOK(k) /\ k.head = l.head
             /\ Cleared(k, m, RightEdge(hi)) /\ Base(k, m) = Base(l, m)
<1> DEFINE n   == NextOf(l, m)
           k   == Freed(l, n)
           x   == NextOf(l, n)
           lo  == Base(l, m)
           top == RightEdge(hi)
<1>1. /\ m \in InList(l) /\ lo \in DOMAIN areas /\ lo \in Nat /\ hi \in Nat
      /\ lo < hi /\ Block(lo, hi)
      /\ l.node[m].area = Hole(lo, hi, areas[lo].offset, areas[lo].align)
      /\ IsAvail(l, m) /\ Limit(l, m) = hi
      /\ {Base(l, j) : j \in InList(l)} = {c \in DOMAIN areas : c <= lo \/ hi <= c}
      /\ \A j \in InList(l) : j # m => l.node[j].area = areas[Base(l, j)]
      /\ l.available = Recount(lo, hi)
  BY ClearedFacts
<1>2. /\ n \in InList(l) /\ n # m /\ Base(l, n) = hi /\ PrevOf(l, n) = m
      /\ n # l.head /\ m # Null
  BY <1>1, NextFacts, NodeFacts
<1>3. hi # MemorySize
  BY <1>2, NodeFacts, PoolAssumption
<1>4. /\ hi \in Used /\ hi < top /\ Block(lo, top) /\ hi \in DOMAIN areas
      /\ Cardinality(FreeIn(lo, top)) =
           Cardinality(FreeIn(lo, hi)) + (IF EndOf(hi) \in FreeAreas THEN 1 ELSE 0)
  BY <1>1, <1>3, BlockGrows DEF Used
<1>5. top \in Nat
  BY <1>4, AreaFacts, PoolAssumption DEF Block, Layout
<1>6. l.node[n].area = areas[hi] /\ Limit(l, n) = EndOf(hi)
  BY <1>1, <1>2 DEF Limit, Size, EndOf
<1>7. MergesBack(l, n) /\ Survivor(l, n) = m
  BY <1>1, <1>2 DEF MergesBack, Survivor, Before
<1>8. (MergesAhead(l, n) <=> EndOf(hi) \in FreeAreas) /\ FreedLimit(l, n) = top
  <2>1. CASE x = Null
    <3>1. EndOf(hi) = MemorySize /\ MemorySize \notin DOMAIN areas
      BY <1>2, <1>6, <2>1, NextFacts, AreaFacts DEF Layout
    <3>2. EndOf(hi) \notin FreeAreas
      BY <3>1 DEF FreeAreas
    <3> QED
      BY <1>6, <2>1, <3>2 DEF MergesAhead, FreedLimit, RightEdge
  <2>2. CASE x # Null
    <3>1. /\ x \in InList(l) /\ Base(l, x) = EndOf(hi) /\ Base(l, x) # lo
          /\ Base(l, x) \in DOMAIN areas
      <4>1. x \in InList(l) /\ Base(l, x) = EndOf(hi)
        BY <1>2, <1>6, <2>2, NextFacts
      <4>2. hi < EndOf(hi) /\ EndOf(hi) \in Nat
        BY <1>4, AreaFacts DEF Layout
      <4>3. Base(l, x) \in {c \in DOMAIN areas : c <= lo \/ hi <= c}
        BY <1>1, <4>1
      <4> QED
        BY <1>1, <4>1, <4>2, <4>3
    <3>2. l.node[x].area = areas[EndOf(hi)]
      BY <1>1, <3>1
    <3>3. IsAvail(l, x) <=> EndOf(hi) \in FreeAreas
      BY <3>1, <3>2 DEF IsAvail, State, FreeAreas, IsFree
    <3>4. Limit(l, x) = EndOf(EndOf(hi))
      BY <3>1, <3>2 DEF Limit, Size, EndOf
    <3> QED
      BY <1>6, <2>2, <3>3, <3>4 DEF MergesAhead, FreedLimit, RightEdge
  <2> QED
    BY <2>1, <2>2
<1> HIDE DEF n
<1>9. /\ ListOK(k) /\ k.head = l.head /\ m \in InList(k)
      /\ InList(k) = {j \in InList(l) : Base(l, j) <= lo \/ top <= Base(l, j)}
      /\ \A j \in InList(k) : Base(k, j) = Base(l, j)
      /\ \A j \in InList(k) : j # m => k.node[j].area = l.node[j].area
      /\ k.node[m].area = Hole(lo, top, l.node[m].area.offset, l.node[m].area.align)
      /\ k.available = l.available + 1
                         - (IF MergesAhead(l, n) THEN 1 ELSE 0)
                         - (IF MergesBack(l, n) THEN 1 ELSE 0)
  BY <1>2, <1>7, <1>8, FreedShape
<1> HIDE DEF k, top, lo
<1>10. AreasOf(k) = Coalesce(lo, top)
  <2>1. {Base(k, j) : j \in InList(k)} = {c \in DOMAIN areas : c <= lo \/ top <= c}
    <3>1. \A c \in DOMAIN areas : c \in Nat
      BY AreaFacts DEF Layout
    <3>2. {Base(k, j) : j \in InList(k)} =
            {c \in {Base(l, j) : j \in InList(l)} : c <= lo \/ top <= c}
      BY <1>9
    <3> QED
      BY <1>1, <1>4, <1>5, <3>1, <3>2
  <2>2. /\ \A j \in InList(k) : j # m => k.node[j].area = areas[Base(k, j)]
        /\ Base(k, m) = lo
    BY <1>1, <1>9 DEF lo
  <2>3. k.node[m].area = Hole(lo, top, areas[lo].offset, areas[lo].align)
    <3>1. /\ l.node[m].area.offset = areas[lo].offset
          /\ l.node[m].area.align = areas[lo].align
      BY <1>1 DEF Hole
    <3> QED
      BY <1>9, <3>1
  <2> QED
    BY <1>1, <1>4, <1>5, <1>9, <2>1, <2>2, <2>3, StandsForMerged
<1>11. k.available = Recount(lo, top)
  <2>1. numOffscreenAvailable \in Int
    BY DEF Layout, TypeOK
  <2>2. Cardinality(FreeIn(lo, hi)) \in Nat
    BY FreeFinite, FS_Subset, FS_CardinalityType DEF FreeIn, Layout
  <2> QED
    BY <1>1, <1>4, <1>7, <1>8, <1>9, <2>1, <2>2 DEF Recount
<1>12. Base(k, m) = lo
  BY <1>1, <1>9 DEF lo
<1> QED
  BY <1>2, <1>3, <1>4, <1>6, <1>9, <1>10, <1>11, <1>12 DEF Cleared, k, n, lo, top

\* A free area is cleared as it is.
LEMMA FreeIsCleared ==
  ASSUME Layout, NEW l, ListOK(l), Settled(l), NEW n \in InList(l), IsAvail(l, n)
  PROVE  Cleared(l, n, Limit(l, n))
<1> DEFINE b == Base(l, n)
           D == {c \in DOMAIN areas : c <= b \/ EndOf(b) <= c}
<1>1. /\ b \in DOMAIN areas /\ b \in FreeAreas /\ EndOf(b) = Limit(l, n)
      /\ areas[b] = l.node[n].area
  BY SettledFacts DEF Settled, Layout
<1>2. /\ Block(b, EndOf(b))
      /\ \A c \in DOMAIN areas : b <= c /\ c < EndOf(b) => c = b
  BY <1>1, FreeBlock
<1>3. /\ \A c \in DOMAIN areas : c \in Nat /\ c < EndOf(c) /\ EndOf(c) \in Nat
      /\ areas[b] \in Area
  BY <1>1, AreaFacts DEF Layout
<1>4. D = DOMAIN areas
  BY <1>1, <1>2, <1>3
<1>5. areas[b] = Hole(b, EndOf(b), areas[b].offset, areas[b].align)
  <2> DEFINE a == l.node[n].area
  <2>1. /\ a \in Area /\ a.state = Avail /\ Blank(a)
        /\ a.size = EndOf(b) - b
    BY <1>1, <1>3, NodeFacts DEF IsAvail, State, EndOf, Area
  <2> HIDE DEF a
  <2>2. a = [size |-> EndOf(b) - b, state |-> Avail, offset |-> a.offset,
             align |-> a.align, last_use |-> 0, want |-> 0]
    BY <2>1 DEF Area, Blank
  <2> QED
    BY <1>1, <2>2 DEF Hole, a
<1>6. Coalesce(b, EndOf(b)) = areas
  <2>1. areas = [c \in DOMAIN areas |-> areas[c]]
    BY DEF Layout, TypeOK
  <2> HIDE DEF b
  <2> QED
    BY <1>4, <1>5, <2>1 DEF Coalesce
<1>7. FreeIn(b, EndOf(b)) = {b}
  BY <1>1, <1>2, <1>3 DEF FreeIn, FreeAreas
<1>8. Recount(b, EndOf(b)) = numOffscreenAvailable
  <2>1. Cardinality(FreeIn(b, EndOf(b))) = 1 /\ numOffscreenAvailable \in Int
    BY <1>7, FS_Singleton DEF Layout, TypeOK
  <2> QED
    BY <2>1 DEF Recount
<1> QED
  BY <1>1, <1>2, <1>6, <1>8 DEF Cleared, Settled

-----------------------------------------------------------------------------
(* Splitting a free area and giving it away. *)

\* The last record, to which the first one's prev leads.
LEMMA LastFacts ==
  ASSUME NEW l, ListOK(l)
  PROVE  /\ PrevOf(l, l.head) \in InList(l)
         /\ NextOf(l, PrevOf(l, l.head)) = Null
<1> DEFINE T == {Base(l, n) : n \in InList(l)}
<1>1. l.head \in InList(l)
  BY DEF ListOK, Linked
<1>2. T \in SUBSET Nat /\ T # {} /\ \A b \in T : b <= MemorySize
  BY <1>1, NodeFacts, PoolAssumption
<1>3. PICK b \in T : \A c \in T : c <= b
  BY <1>2, LastOf, PoolAssumption
<1>4. PICK z \in InList(l) : Base(l, z) = b
  OBVIOUS
<1>5. NextOf(l, z) = Null
  <2> SUFFICES ASSUME NextOf(l, z) # Null PROVE FALSE
    OBVIOUS
  <2>1. NextOf(l, z) \in InList(l) /\ Base(l, NextOf(l, z)) = Limit(l, z)
    BY NextFacts
  <2>2. Limit(l, z) <= b
    BY <1>3, <2>1
  <2> QED
    BY <1>4, <2>2, NodeFacts
<1>6. PrevOf(l, l.head) = z
  BY <1>5 DEF ListOK, Linked
<1> QED
  BY <1>5, <1>6

LEMMA SplitShape ==
  ASSUME NEW l, ListOK(l), NEW n \in InList(l), NEW new \in Records \ InList(l),
         need \in Nat \ {0}, need < Size(l, n), IsAvail(l, n)
  PROVE  LET k  == Split(l, n, new)
             at == Limit(l, n) - need
         IN  /\ ListOK(k) /\ InList(k) = InList(l) \cup {new}
             /\ Base(k, new) = Base(l, n)
             /\ k.node[new].area = Hole(Base(l, n), at, Base(l, n), 0)
             /\ Base(k, n) = at /\ Size(k, n) = need
             /\ \A m \in InList(l) : m # n =>
                  Base(k, m) = Base(l, m) /\ k.node[m].area = l.node[m].area
             /\ k.available = l.available
<1> DEFINE k     == Split(l, n, new)
           at    == Limit(l, n) - need
           base  == Base(l, n)
           prev  == PrevOf(l, n)
           next  == NextOf(l, n)
           first == NextOf(l, prev) = Null
           hole  == Hole(base, at, base, 0)
           rec   == [l.node[n].area EXCEPT !.size = need]
<1>1. /\ l.head \in InList(l) /\ Base(l, l.head) = OffScreenBase
      /\ n \in Records /\ n # Null /\ new \in Records /\ new # n /\ new # Null
      /\ \A m \in InList(l) : m # new
  BY NodeFacts, RecordAssumption DEF ListOK, Linked
<1>2. /\ base \in OffScreenBase .. MemorySize - 1 /\ base \in Nat
      /\ Limit(l, n) \in Nat /\ Limit(l, n) <= MemorySize
      /\ Limit(l, n) = base + Size(l, n) /\ Size(l, n) \in Nat \ {0}
  <2>1. Limit(l, n) <= MemorySize
    BY NextFacts, NodeFacts, PoolAssumption
  <2> QED
    BY <2>1, NodeFacts DEF Limit
<1>3. at = base + LeftOver(l, n) /\ base < at /\ at + need = Limit(l, n)
      /\ at \in OffScreenBase .. MemorySize - 1 /\ at \in Nat
  BY <1>2, PoolAssumption DEF LeftOver
<1>4. hole \in Area /\ Blank(hole) /\ hole.size = at - base
  BY <1>2, <1>3, CounterAssumption DEF Hole, Area, Blank, States
<1>5. rec \in Area /\ Blank(rec) /\ rec.size = need
  BY NodeFacts DEF Area, Blank
<1>6. /\ k.head = IF first THEN new ELSE l.head
      /\ k.available = l.available
      /\ InList(k) = InList(l) \cup {new}
      /\ k.node = [m \in InList(k) |-> k.node[m]]
      /\ k.node[new] = Node(base, hole, n, prev)
      /\ k.node[n] = Node(at, rec, next, new)
      /\ \A m \in InList(l) : m # n =>
           k.node[m] = Node(Base(l, m), l.node[m].area,
                            IF m = prev /\ ~ first THEN new ELSE NextOf(l, m),
                            PrevOf(l, m))
  BY <1>1, <1>3 DEF Split, InList
<1> HIDE DEF k, at, hole, rec
<1>7. /\ Base(k, new) = base /\ NextOf(k, new) = n /\ PrevOf(k, new) = prev
      /\ k.node[new].area = hole /\ Limit(k, new) = at
  BY <1>2, <1>3, <1>4, <1>6, NodeFields DEF Base, NextOf, PrevOf, Limit, Size
<1>8. /\ Base(k, n) = at /\ NextOf(k, n) = next /\ PrevOf(k, n) = new
      /\ k.node[n].area = rec /\ Size(k, n) = need /\ Limit(k, n) = Limit(l, n)
  BY <1>3, <1>5, <1>6, NodeFields DEF Base, NextOf, PrevOf, Limit, Size
<1>9. \A m \in InList(l) : m # n =>
        /\ Base(k, m) = Base(l, m) /\ k.node[m].area = l.node[m].area
        /\ Limit(k, m) = Limit(l, m) /\ PrevOf(k, m) = PrevOf(l, m)
        /\ NextOf(k, m) = IF m = prev /\ ~ first THEN new ELSE NextOf(l, m)
  BY <1>6, NodeFields DEF Base, NextOf, PrevOf, Limit, Size
<1>10. \A m \in InList(k) : k.node[m] \in Record /\ Blank(k.node[m].area)
  <2>1. PrevOf(l, n) \in Records \cup {Null} /\ next \in Records \cup {Null}
    BY NodeFacts
  <2>2. k.node[new] \in Record /\ k.node[n] \in Record
    BY <1>1, <1>2, <1>3, <1>4, <1>5, <1>6, <2>1, NodeFields
  <2>3. ASSUME NEW m \in InList(l), m # n
        PROVE  k.node[m] \in Record /\ Blank(k.node[m].area)
    <3>1. PICK x \in Records \cup {Null} :
            k.node[m] = Node(Base(l, m), l.node[m].area, x, PrevOf(l, m))
      BY <1>1, <1>6, <2>3, NodeFacts
    <3> QED
      BY <1>9, <2>3, <3>1, NodeFacts, NodeFields
  <2> QED
    BY <1>4, <1>5, <1>6, <1>7, <1>8, <2>2, <2>3
<1>11. k.node \in [InList(k) -> Record]
  BY <1>6, <1>10
<1> DEFINE Links ==
             /\ k.head \in InList(k) /\ Base(k, k.head) = OffScreenBase
             /\ \A m \in InList(k) :
                  /\ IF NextOf(k, m) = Null
                     THEN Limit(k, m) = MemorySize /\ PrevOf(k, k.head) = m
                     ELSE /\ NextOf(k, m) \in InList(k)
                          /\ Base(k, NextOf(k, m)) = Limit(k, m)
                          /\ PrevOf(k, NextOf(k, m)) = m
                  /\ m # k.head => /\ PrevOf(k, m) \in InList(k)
                                   /\ NextOf(k, PrevOf(k, m)) = m
<1>12. ASSUME n = l.head PROVE Links
  <2>1. prev \in InList(l) /\ first
    BY <1>12, LastFacts
  <2>2. k.head = new
    BY <1>6, <2>1
  <2>3. ASSUME NEW m \in InList(k)
        PROVE  IF NextOf(k, m) = Null
               THEN Limit(k, m) = MemorySize /\ PrevOf(k, k.head) = m
               ELSE /\ NextOf(k, m) \in InList(k)
                    /\ Base(k, NextOf(k, m)) = Limit(k, m)
                    /\ PrevOf(k, NextOf(k, m)) = m
    <3>1. CASE m = new
      BY <1>1, <1>6, <1>7, <1>8, <3>1
    <3>2. CASE m # new
      <4>1. /\ m \in InList(l) /\ NextOf(k, m) = NextOf(l, m)
            /\ Limit(k, m) = Limit(l, m)
        BY <1>6, <1>8, <1>9, <2>1, <3>2
      <4>2. CASE NextOf(l, m) = Null
        <5>1. Limit(l, m) = MemorySize /\ PrevOf(l, n) = m
          BY <1>12, <4>1, <4>2 DEF ListOK, Linked
        <5> QED
          BY <1>7, <2>2, <4>1, <4>2, <5>1
      <4>3. CASE NextOf(l, m) # Null
        <5>1. /\ NextOf(l, m) \in InList(l) /\ NextOf(l, m) # n
              /\ Base(l, NextOf(l, m)) = Limit(l, m)
              /\ PrevOf(l, NextOf(l, m)) = m
          BY <1>12, <4>1, <4>3, NextFacts
        <5> QED
          BY <1>6, <1>9, <4>1, <4>3, <5>1
      <4> QED
        BY <4>2, <4>3
    <3> QED
      BY <3>1, <3>2
  <2>4. ASSUME NEW m \in InList(k), m # k.head
        PROVE  PrevOf(k, m) \in InList(k) /\ NextOf(k, PrevOf(k, m)) = m
    <3>1. CASE m = n
      BY <1>6, <1>7, <1>8, <3>1
    <3>2. CASE m # n
      <4>1. m \in InList(l) /\ PrevOf(k, m) = PrevOf(l, m)
        BY <1>6, <1>9, <2>2, <2>4, <3>2
      <4>2. PrevOf(l, m) \in InList(l) /\ NextOf(l, PrevOf(l, m)) = m
        BY <1>12, <3>2, <4>1 DEF ListOK, Linked
      <4>3. NextOf(k, PrevOf(l, m)) = NextOf(l, PrevOf(l, m))
        BY <1>8, <1>9, <2>1, <4>2
      <4> QED
        BY <1>6, <4>1, <4>2, <4>3
    <3> QED
      BY <3>1, <3>2
  <2> QED
    BY <1>1, <1>6, <1>7, <1>12, <2>2, <2>3, <2>4
<1>13. ASSUME n # l.head PROVE Links
  <2>1. prev \in InList(l) /\ NextOf(l, prev) = n /\ ~ first
    BY <1>1, <1>13 DEF ListOK, Linked
  <2>2. prev # n /\ Limit(l, prev) = base
    BY <1>1, <2>1, NextFacts
  <2>3. k.head = l.head /\ Base(k, k.head) = OffScreenBase
    BY <1>1, <1>6, <1>9, <1>13, <2>1
  <2>4. ASSUME NEW m \in InList(k)
        PROVE  IF NextOf(k, m) = Null
               THEN Limit(k, m) = MemorySize /\ PrevOf(k, k.head) = m
               ELSE /\ NextOf(k, m) \in InList(k)
                    /\ Base(k, NextOf(k, m)) = Limit(k, m)
                    /\ PrevOf(k, NextOf(k, m)) = m
    <3>1. CASE m = new
      BY <1>1, <1>6, <1>7, <1>8, <3>1
    <3>2. CASE m = prev
      BY <1>1, <1>6, <1>7, <1>9, <2>1, <2>2, <3>2
    <3>3. CASE m # new /\ m # prev
      <4>1. /\ m \in InList(l) /\ NextOf(k, m) = NextOf(l, m)
            /\ Limit(k, m) = Limit(l, m)
        BY <1>6, <1>8, <1>9, <3>3
      <4>2. CASE NextOf(l, m) = Null
        <5>1. Limit(l, m) = MemorySize /\ PrevOf(l, l.head) = m
          BY <4>1, <4>2 DEF ListOK, Linked
        <5>2. PrevOf(k, l.head) = PrevOf(l, l.head)
          BY <1>1, <1>9, <1>13
        <5> QED
          BY <2>3, <4>1, <4>2, <5>1, <5>2
      <4>3. CASE NextOf(l, m) # Null
        <5>1. /\ NextOf(l, m) \in InList(l)
              /\ Base(l, NextOf(l, m)) = Limit(l, m)
              /\ PrevOf(l, NextOf(l, m)) = m
          BY <4>1, <4>3, NextFacts
        <5>2. NextOf(l, m) # n
          BY <3>3, <5>1
        <5> QED
          BY <1>6, <1>9, <4>1, <4>3, <5>1, <5>2
      <4> QED
        BY <4>2, <4>3
    <3> QED
      BY <3>1, <3>2, <3>3
  <2>5. ASSUME NEW m \in InList(k), m # k.head
        PROVE  PrevOf(k, m) \in InList(k) /\ NextOf(k, PrevOf(k, m)) = m
    <3>1. CASE m = n
      BY <1>6, <1>7, <1>8, <3>1
    <3>2. CASE m = new
      BY <1>6, <1>7, <1>9, <2>1, <2>2, <3>2
    <3>3. CASE m # n /\ m # new
      <4>1. m \in InList(l) /\ PrevOf(k, m) = PrevOf(l, m)
        BY <1>6, <1>9, <3>3
      <4>2. PrevOf(l, m) \in InList(l) /\ NextOf(l, PrevOf(l, m)) = m
        BY <2>3, <2>5, <4>1 DEF ListOK, Linked
      <4>3. PrevOf(l, m) # prev
        BY <2>1, <3>3, <4>2
      <4>4. NextOf(k, PrevOf(l, m)) = NextOf(l, PrevOf(l, m))
        BY <1>8, <1>9, <4>2, <4>3
      <4> QED
        BY <1>6, <4>1, <4>2, <4>4
    <3> QED
      BY <3>1, <3>2, <3>3
  <2> QED
    BY <1>1, <1>6, <2>3, <2>4, <2>5
<1>14. Links
  BY <1>12, <1>13
<1>15. ASSUME NEW m \in InList(k), NEW j \in InList(k), m # j
       PROVE  Limit(k, m) <= Base(k, j) \/ Limit(k, j) <= Base(k, m)
  <2>1. \A i \in InList(l) : i # n =>
          /\ Limit(l, i) <= base \/ Limit(l, n) <= Base(l, i)
          /\ Base(l, i) \in Nat /\ Limit(l, i) \in Nat
    BY BasesDiffer, NodeFacts
  <2>2. CASE m = new \/ m = n
    BY <1>2, <1>3, <1>6, <1>7, <1>8, <1>9, <1>15, <2>1, <2>2
  <2>3. CASE j = new \/ j = n
    BY <1>2, <1>3, <1>6, <1>7, <1>8, <1>9, <1>15, <2>1, <2>3
  <2>4. CASE ~ (m = new \/ m = n) /\ ~ (j = new \/ j = n)
    <3>1. m \in InList(l) /\ j \in InList(l)
      BY <1>6, <2>4
    <3> QED
      BY <1>9, <1>15, <2>4, <3>1, BasesDiffer
  <2> QED
    BY <2>2, <2>3, <2>4
<1>16. Linked(k)
  BY <1>14, <1>15 DEF Linked
<1>17. ListOK(k)
  BY <1>6, <1>10, <1>11, <1>16 DEF ListOK
<1> QED
  BY <1>6, <1>7, <1>8, <1>9, <1>17 DEF k, at, hole

LEMMA TakenShape ==
  ASSUME TypeOK, request \in Requests, NEW l, ListOK(l), NEW n \in InList(l),
         NEW available \in Int
  PROVE  LET k == Taken(l, n, available)
         IN  /\ ListOK(k) /\ InList(k) = InList(l)
             /\ \A m \in InList(l) : Base(k, m) = Base(l, m)
             /\ \A m \in InList(l) : m # n => k.node[m].area = l.node[m].area
             /\ k.node[n].area = Allocated(l, n)
             /\ k.available = available
<1> DEFINE k == Taken(l, n, available)
           a == Allocated(l, n)
<1>1. a \in Area /\ a.size = Size(l, n) /\ Blank(a)
  <2>1. /\ request.size \in Nat /\ AlignOf(request) \in Nat \ {0}
    BY RequestAssumption DEF AlignOf
  <2>2. RoundUp(Base(l, n), AlignOf(request)) \in Nat
    BY <2>1, NodeFacts, RoundUpFacts
  <2>3. Size(l, n) \in Nat \ {0} /\ offScreenCounter \in 0 .. CounterMod - 1
    BY NodeFacts DEF TypeOK
  <2> QED
    BY <2>1, <2>2, <2>3
    DEF Allocated, Area, Blank, States, Avail, Removable, Locked
<1>2. /\ k.head = l.head /\ k.available = available
      /\ k.node = [m \in InList(l) |->
                     IF m = n THEN Node(Base(l, n), a, NextOf(l, n), PrevOf(l, n))
                     ELSE l.node[m]]
  BY DEF Taken
<1> HIDE DEF k, a
<1>3. /\ ListOK(k) /\ InList(k) = InList(l)
      /\ \A m \in InList(l) : Base(k, m) = Base(l, m)
      /\ \A m \in InList(l) : m # n => k.node[m].area = l.node[m].area
      /\ k.node[n].area = a
  BY <1>1, <1>2, RewriteShape
<1> QED
  BY <1>2, <1>3 DEF k, a

\* Giving the end of a cleared area away, the rest becoming a record.
LEMMA TakePart ==
  ASSUME Layout, request \in Requests, NEW l, ListOK(l), NEW n, NEW hi,
         Cleared(l, n, hi), need \in Nat \ {0}, need < Size(l, n),
         NEW new \in Records \ InList(l)
  PROVE  LET k == Taken(Split(l, n, new), n, l.available)
         IN  ListOK(k) /\ AreasOf(k) = Place(Base(l, n), hi, need, request)
             /\ k.available = l.available
<1> DEFINE k1 == Split(l, n, new)
           k  == Taken(k1, n, l.available)
           lo == Base(l, n)
           at == hi - need
           F  == Place(lo, hi, need, request)
<1>1. /\ n \in InList(l) /\ IsAvail(l, n) /\ Limit(l, n) = hi /\ Size(l, n) = hi - lo
      /\ lo \in Nat /\ hi \in Nat
      /\ {Base(l, m) : m \in InList(l)} = {c \in DOMAIN areas : c <= lo \/ hi <= c}
      /\ \A m \in InList(l) : m # n => l.node[m].area = areas[Base(l, m)]
      /\ lo \in DOMAIN areas
  BY ClearedFacts
<1>2. /\ ListOK(k1) /\ InList(k1) = InList(l) \cup {new}
      /\ Base(k1, new) = lo /\ k1.node[new].area = Hole(lo, at, lo, 0)
      /\ Base(k1, n) = at /\ Size(k1, n) = need
      /\ \A m \in InList(l) : m # n =>
           Base(k1, m) = Base(l, m) /\ k1.node[m].area = l.node[m].area
  BY <1>1, SplitShape
<1>3. TypeOK /\ l.available \in Int /\ n \in InList(k1)
  BY <1>1, <1>2 DEF Layout, ListOK
<1> HIDE DEF k1
<1>4. /\ ListOK(k) /\ InList(k) = InList(k1)
      /\ \A m \in InList(k1) : Base(k, m) = Base(k1, m)
      /\ \A m \in InList(k1) : m # n => k.node[m].area = k1.node[m].area
      /\ k.node[n].area = Allocated(k1, n)
      /\ k.available = l.available
  BY <1>2, <1>3, TakenShape
<1>5. Allocated(k1, n) =
        [size     |-> need,
         state    |-> IF request.locked THEN Locked ELSE Removable,
         offset   |-> RoundUp(at, AlignOf(request)),
         align    |-> AlignOf(request),
         last_use |-> offScreenCounter,
         want     |-> request.size]
  BY <1>2 DEF Allocated
<1>6. /\ F = [b \in DOMAIN F |-> F[b]]
      /\ DOMAIN F = {c \in DOMAIN areas : c < lo \/ hi <= c} \cup {lo, at}
      /\ F[at] = Allocated(k1, n)
      /\ lo # at => F[lo] = Hole(lo, at, lo, 0)
      /\ \A c \in DOMAIN areas : (c < lo \/ hi <= c) /\ c # lo /\ c # at
                  => F[c] = areas[c]
  BY <1>5 DEF Place
<1> HIDE DEF k, F, lo
<1>7. /\ new # n /\ lo < at /\ at < hi
      /\ \A m \in InList(l) : m # n => Base(l, m) < lo \/ hi <= Base(l, m)
  <2>1. new # n /\ lo < at /\ at < hi
    BY <1>1
  <2>2. ASSUME NEW m \in InList(l), m # n
        PROVE  Base(l, m) < lo \/ hi <= Base(l, m)
    <3>1. Limit(l, m) <= lo \/ hi <= Base(l, m)
      BY <1>1, <2>2, BasesDiffer DEF lo
    <3> QED
      BY <1>1, <3>1, NodeFacts
  <2> QED
    BY <2>1, <2>2
<1>8. DOMAIN F = {Base(k, m) : m \in InList(k)}
  <2>1. {Base(k, m) : m \in InList(k)} =
          {Base(l, m) : m \in InList(l) \ {n}} \cup {lo, at}
    BY <1>1, <1>2, <1>4, <1>7
  <2>2. {Base(l, m) : m \in InList(l) \ {n}} =
          {c \in DOMAIN areas : c < lo \/ hi <= c}
    <3>1. ASSUME NEW m \in InList(l) \ {n}
          PROVE  Base(l, m) \in {c \in DOMAIN areas : c < lo \/ hi <= c}
      BY <1>1, <1>7
    <3>2. ASSUME NEW c \in DOMAIN areas, c < lo \/ hi <= c
          PROVE  \E m \in InList(l) \ {n} : c = Base(l, m)
      <4>1. c \in Nat /\ lo < hi
        BY <1>1, <1>7, AreaFacts DEF Layout
      <4>2. c \in {Base(l, m) : m \in InList(l)} /\ c # lo
        BY <1>1, <3>2, <4>1
      <4> QED
        BY <4>2 DEF lo
    <3> QED
      BY <3>1, <3>2
  <2> QED
    BY <1>6, <2>1, <2>2
<1>9. ASSUME NEW m \in InList(k) PROVE F[Base(k, m)] = k.node[m].area
  <2>1. CASE m = n
    BY <1>2, <1>3, <1>4, <1>6, <2>1
  <2>2. CASE m = new
    <3>1. lo # at
      BY <1>1, <1>7
    <3> QED
      BY <1>2, <1>4, <1>6, <1>7, <2>2, <3>1
  <2>3. CASE m # n /\ m # new
    <3>1. /\ m \in InList(l) /\ Base(k, m) = Base(l, m)
          /\ k.node[m].area = areas[Base(l, m)]
      BY <1>1, <1>2, <1>4, <2>3
    <3>2. /\ Base(l, m) \in DOMAIN areas
          /\ Base(l, m) < lo \/ hi <= Base(l, m)
          /\ Base(l, m) \in Nat
      BY <1>1, <1>7, <2>3, <3>1, NodeFacts
    <3> QED
      BY <1>1, <1>6, <1>7, <3>1, <3>2
  <2> QED
    BY <2>1, <2>2, <2>3
<1>10. AreasOf(k) = F
  BY <1>4, <1>6, <1>8, <1>9, StandsFor
<1> QED
  BY <1>4, <1>10 DEF k, k1, F, lo

\* Giving a whole cleared area away.
LEMMA TakeAll ==
  ASSUME Layout, request \in Requests, NEW l, ListOK(l), NEW n, NEW hi,
         Cleared(l, n, hi), need = Size(l, n)
  PROVE  LET k == Taken(l, n, l.available - 1)
         IN  ListOK(k) /\ AreasOf(k) = Place(Base(l, n), hi, need, request)
             /\ k.available = l.available - 1
<1> DEFINE k  == Taken(l, n, l.available - 1)
           lo == Base(l, n)
           F  == Place(lo, hi, need, request)
<1>1. /\ n \in InList(l) /\ IsAvail(l, n) /\ Limit(l, n) = hi /\ Size(l, n) = hi - lo
      /\ lo \in Nat /\ hi \in Nat /\ lo < hi
      /\ {Base(l, m) : m \in InList(l)} = {c \in DOMAIN areas : c <= lo \/ hi <= c}
      /\ \A m \in InList(l) : m # n => l.node[m].area = areas[Base(l, m)]
      /\ lo \in DOMAIN areas
  BY ClearedFacts
<1>2. hi - need = lo
  BY <1>1
<1>3. TypeOK /\ l.available - 1 \in Int
  BY DEF Layout, ListOK
<1>4. /\ ListOK(k) /\ InList(k) = InList(l)
      /\ \A m \in InList(l) : Base(k, m) = Base(l, m)
      /\ \A m \in InList(l) : m # n => k.node[m].area = l.node[m].area
      /\ k.node[n].area = Allocated(l, n)
      /\ k.available = l.available - 1
  BY <1>1, <1>3, TakenShape
<1>5. Allocated(l, n) =
        [size     |-> need,
         state    |-> IF request.locked THEN Locked ELSE Removable,
         offset   |-> RoundUp(lo, AlignOf(request)),
         align    |-> AlignOf(request),
         last_use |-> offScreenCounter,
         want     |-> request.size]
  BY DEF Allocated
<1>6. /\ F = [b \in DOMAIN F |-> F[b]]
      /\ DOMAIN F = {c \in DOMAIN areas : c < lo \/ hi <= c} \cup {lo}
      /\ F[lo] = Allocated(l, n)
      /\ \A c \in DOMAIN areas : (c < lo \/ hi <= c) /\ c # lo => F[c] = areas[c]
  BY <1>2, <1>5 DEF Place
<1> HIDE DEF k, F, lo
<1>7. \A c \in DOMAIN areas : c \in Nat
  BY AreaFacts DEF Layout
<1>8. DOMAIN F = {Base(k, m) : m \in InList(k)}
  BY <1>1, <1>4, <1>6, <1>7
<1>9. ASSUME NEW m \in InList(k) PROVE F[Base(k, m)] = k.node[m].area
  <2>1. CASE m = n
    BY <1>4, <1>6, <2>1 DEF lo
  <2>2. CASE m # n
    <3>1. Base(l, m) # lo /\ Base(l, m) \in DOMAIN areas /\ Base(l, m) \in Nat
          /\ (Base(l, m) <= lo \/ hi <= Base(l, m))
      BY <1>1, <1>4, <2>2, BasesDiffer, NodeFacts DEF lo
    <3> QED
      BY <1>1, <1>4, <1>6, <2>2, <3>1
  <2> QED
    BY <2>1, <2>2
<1>10. AreasOf(k) = F
  BY <1>4, <1>6, <1>8, <1>9, StandsFor
<1> QED
  BY <1>4, <1>10 DEF k, F, lo

-----------------------------------------------------------------------------
(* Where the searches and the kicking out lead. *)

\* A block reckoned from a later address ends no earlier.
LEMMA HeadMonotone ==
  ASSUME NEW b \in Nat, NEW c \in Nat, b <= c, NEW r \in Requests
  PROVE  b + HeadSize(b, r) <= c + HeadSize(c, r)
<1> DEFINE a == AlignOf(r)
           o == c + (IF c % a # 0 THEN a - (c % a) ELSE 0)
<1>1. a \in Nat \ {0} /\ r.size \in Nat
  BY RequestAssumption DEF AlignOf
<1>2. c % a \in 0 .. a - 1
  BY <1>1, ModRange
<1>3. o % a = 0
  BY <1>1, RoundUpMod
<1>4. o \in Nat /\ c <= o
  BY <1>1, <1>2
<1>5. c + HeadSize(c, r) = o + r.size
  BY <1>1, <1>2 DEF HeadSize
<1> HIDE DEF o
<1>6. b + HeadSize(b, r) <= o + r.size
  BY <1>3, <1>4, HeadEnd
<1> QED
  BY <1>5, <1>6

LEMMA NextPos ==
  ASSUME ListOK(list), NEW n \in InList(list)
  PROVE  PosOf(NextOf(list, n)) = Limit(list, n)
BY NextFacts DEF PosOf

\* What kicking out h arrives at is not beyond an area that ends unfree.
LEMMA EdgeBeforeStop ==
  ASSUME Layout, NEW h \in Used, NEW c \in DOMAIN areas, h <= c,
         EndOf(c) \notin FreeAreas
  PROVE  RightEdge(h) <= EndOf(c)
<1>1. h \in DOMAIN areas /\ FreeAreas \subseteq DOMAIN areas
  BY DEF Used, FreeAreas
<1>2. \A d \in DOMAIN areas :
        /\ d \in Nat /\ EndOf(d) \in Nat /\ d < EndOf(d)
        /\ \A e \in DOMAIN areas : d < e => EndOf(d) <= e
  BY <1>1, AreaFacts, NonEmpty DEF Layout, Tiling
<1>3. CASE EndOf(h) \notin FreeAreas
  BY <1>1, <1>2, <1>3 DEF RightEdge
<1>4. CASE EndOf(h) \in FreeAreas
  <2>1. h # c /\ h < c /\ EndOf(h) <= c
    BY <1>1, <1>2, <1>4
  <2>2. EndOf(h) \in DOMAIN areas /\ EndOf(EndOf(h)) <= EndOf(c)
    BY <1>1, <1>2, <1>4, <2>1
  <2> QED
    BY <1>4, <2>2 DEF RightEdge
<1> QED
  BY <1>3, <1>4

LEMMA LastArea ==
  ASSUME Layout, areas # NoAreas
  PROVE  \E z \in DOMAIN areas : /\ EndOf(z) = MemorySize
                                 /\ \A c \in DOMAIN areas : c <= z
<1>1. \A c \in DOMAIN areas : c \in Nat /\ c < EndOf(c) /\ EndOf(c) \in Nat
                              /\ c < MemorySize
  BY AreaFacts DEF Layout
<1>2. DOMAIN areas \in SUBSET Nat /\ DOMAIN areas # {}
      /\ MemorySize \in Nat /\ \A c \in DOMAIN areas : c <= MemorySize
  BY <1>1, PoolAssumption DEF Layout, Tiling
<1>3. PICK z \in DOMAIN areas : \A c \in DOMAIN areas : c <= z
  BY <1>2, LastOf
<1>4. EndOf(z) \in DOMAIN areas \cup {MemorySize}
  BY DEF Layout, Tiling
<1> QED
  BY <1>1, <1>3, <1>4

\* A boundary above an area is the end of an area from there on.
LEMMA EndsSomewhere ==
  ASSUME Layout, NEW b \in DOMAIN areas, NEW hi \in DOMAIN areas \cup {MemorySize},
         b < hi
  PROVE  \E c \in DOMAIN areas : b <= c /\ EndOf(c) = hi
<1>1. areas # NoAreas /\ b \in Nat /\ OffScreenBase <= b
  BY AreaFacts, NonEmpty DEF Layout
<1>2. \A d \in DOMAIN areas :
        /\ d \in Nat /\ EndOf(d) \in Nat /\ d < EndOf(d)
        /\ \A e \in DOMAIN areas : d < e => EndOf(d) <= e
  BY <1>1, AreaFacts DEF Layout, Tiling
<1>3. CASE hi = MemorySize
  BY <1>1, <1>3, LastArea
<1>4. CASE hi \in DOMAIN areas
  <2>1. hi # OffScreenBase
    BY <1>1, <1>2, <1>4, PoolAssumption
  <2>2. PICK c \in DOMAIN areas : EndOf(c) = hi
    BY <1>1, <1>4, <2>1 DEF Layout, Tiling
  <2>3. b <= c
    BY <1>2, <2>2
  <2> QED
    BY <2>2, <2>3
<1> QED
  BY <1>3, <1>4

\* What a region chosen has in store.
LEMMA RoomFacts ==
  ASSUME Layout, NEW r \in Requests, ~ Rejected(r), NEW lo, NEW hi, NEW n,
         Block(lo, hi), RoomAt(lo, hi, n, r)
  PROVE  /\ Regions(r) # {}
         /\ n \in Nat \ {0}
         /\ n <= hi - lo => <<lo, hi, n>> \in Regions(r)
         /\ hi - lo < n => /\ hi \in Used /\ areas[hi].state = Removable
                           /\ RoomAt(lo, RightEdge(hi), n, r)
<1>1. /\ lo \in DOMAIN areas /\ lo \in Nat /\ hi \in Nat /\ lo < hi
      /\ hi \in DOMAIN areas \cup {MemorySize} /\ hi \notin FreeAreas
      /\ areas # NoAreas
  BY AreaFacts, NonEmpty, PoolAssumption DEF Block, Layout
<1>2. \A d \in DOMAIN areas :
        /\ d \in Nat /\ EndOf(d) \in Nat /\ d < EndOf(d) /\ d < MemorySize
        /\ \A e \in DOMAIN areas : d < e => EndOf(d) <= e
  BY <1>1, AreaFacts DEF Layout, Tiling
<1>3. CASE <<lo, hi, n>> \in FirstFit(r)
  <2>1. PICK b \in FitsFree(r) : lo = b /\ hi = EndOf(b) /\ n = TailSize(b, r)
    BY <1>3 DEF FirstFit
  <2>2. b \in DOMAIN areas /\ n <= areas[b].size /\ FitsFree(r) # {}
    BY <2>1 DEF FitsFree, FreeAreas
  <2>3. n \in Nat \ {0}
    BY <2>1, <2>2, SizeFacts DEF Layout
  <2>4. n <= hi - lo
    BY <1>1, <2>1, <2>2, <2>3, AreaFacts DEF EndOf, Layout
  <2>5. <<lo, hi, n>> \in Regions(r)
    BY <1>3, <2>2 DEF Regions
  <2> QED
    BY <1>1, <2>3, <2>4, <2>5
<1>4. CASE /\ FitsFree(r) = {}
           /\ \E b \in Cheapest(r) :
                /\ n = HeadSize(b, r)
                /\ lo = (IF IsFree(b) THEN b ELSE LeftEdge(b))
                /\ b < hi
                /\ \A f \in Stops(b, lo, n) : hi <= f
  <2>1. PICK b \in Cheapest(r) :
          /\ n = HeadSize(b, r)
          /\ lo = (IF IsFree(b) THEN b ELSE LeftEdge(b))
          /\ b < hi
          /\ \A f \in Stops(b, lo, n) : hi <= f
    BY <1>4
  <2>2. /\ b \in DOMAIN areas /\ n \in Nat \ {0} /\ b + n <= MemorySize
        /\ \A c \in DOMAIN areas : b <= c /\ c < b + n => areas[c].state # Locked
    BY <2>1, CandidateFacts DEF Cheapest
  <2>3. lo <= b
    <3>1. CASE IsFree(b)
      BY <1>1, <2>1, <3>1
    <3>2. CASE ~ IsFree(b)
      BY <2>1, <2>2, <3>2, FreedBlock DEF Used, IsFree, IsUsed
    <3> QED
      BY <3>1, <3>2
  <2>4. Regions(r) = Evicting(r) /\ Evicting(r) # {}
    BY <1>4, <2>1, EvictingFinds DEF Regions
  <2>5. ASSUME n <= hi - lo PROVE <<lo, hi, n>> \in Regions(r)
    <3>1. PICK c \in DOMAIN areas : b <= c /\ EndOf(c) = hi
      BY <1>1, <2>1, <2>2, EndsSomewhere
    <3>2. hi \in Stops(b, lo, n)
      BY <1>1, <2>5, <3>1 DEF Stops
    <3>3. <<lo, hi, n>> \in Evicting(r)
      BY <2>1, <3>2 DEF Evicting
    <3> QED
      BY <2>4, <3>3
  <2>6. ASSUME hi - lo < n
        PROVE  /\ hi \in Used /\ areas[hi].state = Removable
               /\ RoomAt(lo, RightEdge(hi), n, r)
    <3>1. hi # MemorySize /\ hi < b + n
      BY <1>1, <1>2, <2>2, <2>3, <2>6
    <3>2. hi \in DOMAIN areas /\ hi \in Used /\ areas[hi].state # Locked
      BY <1>1, <2>1, <2>2, <3>1, AreaFacts DEF Layout
    <3>3. areas[hi].state = Removable
      BY <3>2, AreaFacts DEF Layout, States, Used, IsUsed
    <3>4. ASSUME NEW f \in Stops(b, lo, n) PROVE RightEdge(hi) <= f
      <4>1. PICK c \in DOMAIN areas : b <= c /\ f = EndOf(c)
        BY DEF Stops
      <4>2. n <= EndOf(c) - lo /\ EndOf(c) \notin FreeAreas
        BY <4>1 DEF Stops
      <4>3. hi <= c
        BY <1>1, <1>2, <2>2, <2>6, <3>2, <4>1, <4>2
      <4> QED
        BY <3>2, <4>1, <4>2, <4>3, EdgeBeforeStop
    <3>5. b < RightEdge(hi)
      <4>1. EndOf(hi) <= RightEdge(hi) /\ Block(LeftEdge(hi), RightEdge(hi))
        BY <3>2, FreedBlock
      <4>2. RightEdge(hi) \in Nat
        BY <1>2, <4>1, PoolAssumption DEF Block
      <4> QED
        BY <1>1, <1>2, <2>1, <2>2, <3>2, <4>1, <4>2
    <3> QED
      BY <1>4, <2>1, <3>2, <3>3, <3>4, <3>5 DEF RoomAt
  <2> QED
    BY <2>2, <2>4, <2>5, <2>6
<1> QED
  BY <1>3, <1>4 DEF RoomAt

-----------------------------------------------------------------------------
(* The steps that leave areas and list alone. *)

LEMMA Frame ==
  ASSUME UNCHANGED vars
  PROVE  /\ \A r : FitsFree(r)' = FitsFree(r) /\ Candidates(r)' = Candidates(r)
         /\ \A r, b : Score(b, r)' = Score(b, r)
         /\ Total' = Total /\ \A c : Age(c)' = Age(c)
         /\ \A l : Settled(l)' = Settled(l)
         /\ \A l, n, hi : Cleared(l, n, hi)' = Cleared(l, n, hi)
         /\ \A lo, hi, n, r : RoomAt(lo, hi, n, r)' = RoomAt(lo, hi, n, r)
<1>1. /\ areas' = areas /\ offScreenCounter' = offScreenCounter
      /\ numOffscreenAvailable' = numOffscreenAvailable
  BY DEF vars
<1>2. \A c : Age(c)' = Age(c)
  BY <1>1 DEF Age
<1>3. \A r : FitsFree(r)' = FitsFree(r)
  BY <1>1 DEF FitsFree, FreeAreas, IsFree, TailSize, EndOf
<1>4. \A r : Candidates(r)' = Candidates(r)
  BY <1>1 DEF Candidates, Span, HeadSize, Age
<1>5. \A r, b : Score(b, r)' = Score(b, r)
  BY <1>1 DEF Score, Span, HeadSize, Age, MapThenSumSet, MapThenFoldSet
<1>6. Total' = Total
  BY <1>1 DEF Total, Weights, Age
<1>7. \A l : Settled(l)' = Settled(l)
  BY <1>1 DEF Settled
<1>8. \A l, n, hi : Cleared(l, n, hi)' = Cleared(l, n, hi)
  BY <1>1 DEF Cleared, Block, Coalesce, Recount, FreeIn, FreeAreas, IsFree, EndOf
<1>9. \A r : FirstFit(r)' = FirstFit(r)
  BY <1>1 DEF FirstFit, FitsFree, FreeAreas, IsFree, TailSize, EndOf
<1>10. \A r : Cheapest(r)' = Cheapest(r)
  BY <1>4, <1>5 DEF Cheapest
<1>11. \A b : LeftEdge(b)' = LeftEdge(b) /\ IsFree(b)' = IsFree(b)
  BY <1>1 DEF LeftEdge, FreeAreas, IsFree, EndOf
<1>12. \A b, lo, n : Stops(b, lo, n)' = Stops(b, lo, n)
  BY <1>1 DEF Stops, FreeAreas, IsFree, EndOf
<1>13. \A lo, hi, n, r : RoomAt(lo, hi, n, r)' = RoomAt(lo, hi, n, r)
  BY <1>3, <1>9, <1>10, <1>11, <1>12 DEF RoomAt
<1> QED
  BY <1>2, <1>3, <1>4, <1>5, <1>6, <1>7, <1>8, <1>13

\* Where the records are.
LEMMA ListFrame ==
  ASSUME UNCHANGED list
  PROVE  /\ \A n : PosOf(n)' = PosOf(n)
         /\ InListOrNull' = InListOrNull /\ InList(list)' = InList(list)
         /\ ListOrNone(list)' = ListOrNone(list)
BY DEF PosOf, InListOrNull

\* A step that changes no area is a stutter of OffscreenAreas.
LEMMA Stays ==
  ASSUME ListInv, UNCHANGED vars
  PROVE  [Next]_vars /\ IInv'
BY InductiveStep DEF ListInv

\* A call that ends with what OffscreenAreas allows.
LEMMA Ends ==
  ASSUME ListInv, NEW l, Return(l), Next, ListOrNone(l)
  PROVE  [Next]_vars /\ ListInv'
<1>1. IInv'
  BY InductiveStep DEF ListInv
<1>2. list' = l /\ pc' = "idle" /\ Idle'
  BY DEF Return, Finish, Idle
<1>3. Settled(list)'
  BY DEF Return, Settled
<1>4. ListOrNone(list)'
  BY <1>2
<1> QED
  BY <1>1, <1>2, <1>3, <1>4 DEF ListInv

LEMMA SettledEmpty ==
  ASSUME ListInv, list.head = Null, Settled(list)
  PROVE  areas = NoAreas
<1>1. InList(list) = {}
  BY DEF ListInv, ListOrNone
<1> QED
  BY <1>1 DEF Settled, AreasOf, NoAreas

-----------------------------------------------------------------------------
(* The calls. *)

LEMMA CallInitStep ==
  ASSUME ListInv, CallInit
  PROVE  [Next]_vars /\ ListInv'
<1> DEFINE rec == Hole(OffScreenBase, MemorySize, OffScreenBase, 0)
<1>1. PICK n \in Records :
        Return([head      |-> n,
                node      |-> [m \in {n} |-> Node(OffScreenBase, rec, Null, n)],
                available |-> 1])
  BY DEF CallInit
<1> DEFINE l == [head      |-> n,
                 node      |-> [m \in {n} |-> Node(OffScreenBase, rec, Null, n)],
                 available |-> 1]
<1>2. rec \in Area /\ Blank(rec) /\ rec.size = MemorySize - OffScreenBase
  BY PoolAssumption, CounterAssumption DEF Hole, Area, Blank, States
<1> HIDE DEF rec
<1>3. /\ InList(l) = {n} /\ l.head = n /\ l.available = 1
      /\ l.node = [m \in {n} |-> l.node[m]]
      /\ l.node[n] = Node(OffScreenBase, rec, Null, n)
  BY DEF InList
<1> HIDE DEF l
<1>4. /\ Base(l, n) = OffScreenBase /\ NextOf(l, n) = Null /\ PrevOf(l, n) = n
      /\ l.node[n].area = rec /\ l.node[n] \in Record
  BY <1>2, <1>3, NodeFields, PoolAssumption DEF Base, NextOf, PrevOf
<1>5. Limit(l, n) = MemorySize
  BY <1>2, <1>4, PoolAssumption DEF Limit, Size
<1>6. Linked(l)
  BY <1>3, <1>4, <1>5 DEF Linked
<1>7. ListOK(l)
  BY <1>2, <1>3, <1>4, <1>6 DEF ListOK
<1>8. AreasOf(l) = [b \in {OffScreenBase} |-> rec]
  <2> DEFINE F == [b \in {OffScreenBase} |-> rec]
  <2>1. /\ F = [b \in DOMAIN F |-> F[b]]
        /\ DOMAIN F = {Base(l, m) : m \in InList(l)}
        /\ \A m \in InList(l) : F[Base(l, m)] = l.node[m].area
    BY <1>3, <1>4
  <2> HIDE DEF F
  <2>2. AreasOf(l) = F
    BY <1>7, <2>1, StandsFor
  <2> QED
    BY <2>2 DEF F
<1>9. areas = NoAreas
  BY SettledEmpty DEF CallInit, ListInv
<1>10. OffscreenInit
  BY <1>1, <1>3, <1>8, <1>9 DEF OffscreenInit, Return, CallInit, l, rec
<1>11. Return(l) /\ l.head # Null
  BY <1>1, <1>3, RecordAssumption DEF l
<1>12. ListOrNone(l) /\ Next
  BY <1>7, <1>10, <1>11 DEF ListOrNone, Next
<1> QED
  BY <1>11, <1>12, Ends

LEMMA CallFreeStep ==
  ASSUME ListInv, NEW n \in InList(list), CallFree(n)
  PROVE  [Next]_vars /\ ListInv'
<1> DEFINE k == Freed(list, n)
           b == Base(list, n)
<1>1. ListOK(list) /\ Settled(list) /\ Layout /\ list.head # Null
  BY DEF ListInv, ListOrNone, CallFree, IInv
<1>2. /\ ListOK(k) /\ k.head = list.head
      /\ Cleared(k, Survivor(list, n), RightEdge(b))
      /\ Base(k, Survivor(list, n)) = LeftEdge(b)
  BY <1>1, KickFirst DEF CallFree
<1>3. b \in Used
  BY <1>1, SettledFacts DEF CallFree, Settled, Layout
<1> HIDE DEF k, b
<1>4. Return(k) /\ UNCHANGED offScreenCounter
  BY DEF CallFree, k
<1>5. OffscreenFree(b)
  BY <1>2, <1>4 DEF OffscreenFree, Return, Cleared
<1>6. Next /\ ListOrNone(k)
  BY <1>1, <1>2, <1>3, <1>5 DEF Next, ListOrNone
<1> QED
  BY <1>4, <1>6, Ends

LEMMA EmptyFacts ==
  ASSUME NEW available \in Int
  PROVE  LET l == EmptyList(available)
         IN  /\ ListOrNone(l) /\ AreasOf(l) = NoAreas
             /\ l.available = available
BY DEF EmptyList, ListOrNone, InList, AreasOf, NoAreas

LEMMA CallFiniStep ==
  ASSUME ListInv, CallFini
  PROVE  [Next]_vars /\ ListInv'
<1> DEFINE k == EmptyList(list.available)
<1>1. ListOK(list) /\ Settled(list) /\ Layout
  BY DEF ListInv, ListOrNone, CallFini, IInv
<1>2. areas # NoAreas /\ list.available \in Int
  BY <1>1, SettledFacts DEF Settled, Layout, ListOK
<1>3. /\ ListOrNone(k) /\ AreasOf(k) = NoAreas
      /\ k.available = list.available
  BY <1>2, EmptyFacts
<1> HIDE DEF k
<1>4. Return(k) /\ UNCHANGED offScreenCounter
  BY DEF CallFini, k
<1>5. OffscreenFini
  BY <1>1, <1>2, <1>3, <1>4 DEF OffscreenFini, Return, Settled
<1>6. Next
  BY <1>5 DEF Next
<1> QED
  BY <1>3, <1>4, <1>6, Ends

\* The first record is at the first address there is.
LEMMA HeadFirst ==
  ASSUME ListInv, Settled(list)
  PROVE  /\ list.head \in InListOrNull
         /\ DOMAIN areas = {} \/ \A c \in DOMAIN areas : PosOf(list.head) <= c
<1>1. CASE list.head = Null
  BY <1>1, SettledEmpty DEF InListOrNull, NoAreas
<1>2. CASE list.head # Null
  <2>1. list.head \in InList(list) /\ Base(list, list.head) = OffScreenBase
    BY <1>2 DEF ListInv, ListOrNone, ListOK, Linked
  <2> QED
    BY <1>2, <2>1, AreaFacts DEF InListOrNull, PosOf, ListInv, IInv, Layout
<1> QED
  BY <1>1, <1>2

LEMMA CallAllocStep ==
  ASSUME ListInv, NEW r \in Requests, CallAlloc(r)
  PROVE  [Next]_vars /\ ListInv'
<1>1. /\ Settled(list) /\ Idle /\ ListOrNone(list) /\ ~ Rejected(r)
      /\ UNCHANGED vars /\ UNCHANGED list
      /\ pc' = "fit" /\ request' = r /\ area' = list.head /\ best' = best
  BY DEF ListInv, CallAlloc
<1>2. [Next]_vars /\ IInv'
  BY <1>1, Stays
<1>3. Asked'
  BY <1>1 DEF Asked, Rejected
<1>4. Settled(list)' /\ ListOrNone(list)'
  BY <1>1, Frame, ListFrame
<1>5. (area \in InListOrNull)'
  BY <1>1, HeadFirst, ListFrame
<1>6. \A c \in FitsFree(r) : PosOf(list.head) <= c
  BY <1>1, HeadFirst DEF FitsFree, FreeAreas
<1>7. (\A c \in FitsFree(request) : PosOf(area) <= c)'
  <2>1. FitsFree(request)' = FitsFree(r) /\ PosOf(area)' = PosOf(list.head)
    BY <1>1, Frame, ListFrame
  <2> QED
    BY <1>6, <2>1
<1>8. FitInv' /\ (best = NoBest)'
  BY <1>1, <1>3, <1>4, <1>5, <1>7 DEF FitInv, Idle, NoBest, NoScore
<1> QED
  BY <1>1, <1>2, <1>4, <1>8 DEF ListInv

LEMMA ClearedEnds ==
  ASSUME Layout, NEW l, NEW n, NEW hi, Cleared(l, n, hi)
  PROVE  hi \in 0 .. MemorySize
<1>1. hi \in DOMAIN areas \cup {MemorySize}
  BY DEF Cleared, Block
<1> QED
  BY <1>1, AreaFacts, PoolAssumption DEF Layout

LEMMA CallSwapOutStep ==
  ASSUME ListInv, CallSwapOut
  PROVE  [Next]_vars /\ ListInv'
<1>1. /\ Settled(list) /\ ListOK(list) /\ list.head # Null
      /\ UNCHANGED vars /\ UNCHANGED list /\ pc' = "swap" /\ Layout
  BY DEF ListInv, ListOrNone, CallSwapOut, IInv
<1>2. [Next]_vars /\ IInv' /\ ListOrNone(list)'
  BY <1>1, Stays, ListFrame DEF ListInv
<1>3. list.head \in InList(list)
  BY <1>1 DEF ListOK, Linked
<1>4. CASE IsAvail(list, list.head)
  <2>1. Cleared(list, list.head, Limit(list, list.head))
    BY <1>1, <1>3, <1>4, FreeIsCleared
  <2>2. PICK hi \in 0 .. MemorySize : Cleared(list, list.head, hi)
    BY <1>1, <2>1, ClearedEnds
  <2>3. Cleared(list, list.head, hi)'
    BY <1>1, <2>2, Frame
  <2>4. SwapInv'
    BY <1>1, <2>2, <2>3 DEF SwapInv
  <2> QED
    BY <1>1, <1>2, <2>4 DEF ListInv
<1>5. CASE ~ IsAvail(list, list.head)
  <2>1. SwapInv'
    BY <1>1, <1>5, Frame DEF SwapInv
  <2> QED
    BY <1>1, <1>2, <2>1 DEF ListInv
<1> QED
  BY <1>4, <1>5

-----------------------------------------------------------------------------
(* The search for a free area that fits. *)

\* What the test of an area of the list says of the areas.
LEMMA FitsMeans ==
  ASSUME Layout, ListOK(list), Settled(list), NEW n \in InList(list)
  PROVE  /\ Fits(n) <=> Base(list, n) \in FitsFree(request)
         /\ TailNeed(list, n, request) = TailSize(Base(list, n), request)
<1>1. /\ Base(list, n) \in DOMAIN areas
      /\ areas[Base(list, n)] = list.node[n].area
      /\ EndOf(Base(list, n)) = Limit(list, n)
      /\ Base(list, n) \in FreeAreas <=> IsAvail(list, n)
  BY SettledFacts DEF Settled, Layout
<1>2. TailNeed(list, n, request) = TailSize(Base(list, n), request)
  BY <1>1 DEF TailNeed, TailSize
<1>3. Size(list, n) = areas[Base(list, n)].size
  BY <1>1 DEF Size
<1> QED
  BY <1>1, <1>2, <1>3 DEF Fits, FitsFree

LEMMA FitFacts ==
  ASSUME ListInv, pc = "fit"
  PROVE  /\ FitInv /\ Settled(list) /\ ListOrNone(list) /\ Layout
         /\ area # Null => ListOK(list) /\ area \in InList(list)
         /\ best = NoBest
<1>1. FitInv /\ ListOrNone(list) /\ Layout /\ best = NoBest
  BY DEF ListInv, IInv
<1>2. area # Null => area \in InList(list) /\ list.head # Null
  BY <1>1 DEF FitInv, InListOrNull, ListOrNone
<1> QED
  BY <1>1, <1>2 DEF FitInv, ListOrNone

LEMMA FitNextStep ==
  ASSUME ListInv, FitNext
  PROVE  [Next]_vars /\ ListInv'
<1> DEFINE next == NextOf(list, area)
           b    == Base(list, area)
<1>1. /\ pc = "fit" /\ area # Null /\ ~ Fits(area)
      /\ area' = next /\ pc' = pc /\ request' = request /\ best' = best
      /\ UNCHANGED vars /\ UNCHANGED list
  BY DEF FitNext
<1>2. /\ FitInv /\ Settled(list) /\ ListOK(list) /\ ListOrNone(list) /\ Layout
      /\ area \in InList(list) /\ best = NoBest
  BY <1>1, FitFacts
<1>3. /\ b \in DOMAIN areas /\ EndOf(b) = Limit(list, area) /\ areas # NoAreas
      /\ PosOf(area) = b
  BY <1>1, <1>2, SettledFacts DEF Settled, Layout, PosOf
<1>4. next \in InListOrNull /\ PosOf(next) = EndOf(b)
  BY <1>2, <1>3, NextFacts, NextPos DEF InListOrNull
<1>5. ASSUME NEW c \in FitsFree(request) PROVE EndOf(b) <= c
  <2>1. c \in DOMAIN areas /\ b <= c
    BY <1>2, <1>3 DEF FitInv, FitsFree, FreeAreas
  <2>2. c # b
    BY <1>1, <1>2, FitsMeans
  <2> QED
    BY <1>2, <1>3, <2>1, <2>2, AreaFacts DEF Layout, Tiling
<1>6. [Next]_vars /\ IInv'
  BY <1>1, Stays
<1> HIDE DEF next
<1>7. /\ Settled(list)' /\ ListOrNone(list)' /\ (area \in InListOrNull)'
      /\ FitsFree(request)' = FitsFree(request)
      /\ PosOf(area)' = PosOf(next)
  BY <1>1, <1>2, <1>4, Frame, ListFrame
<1>8. (\A c \in FitsFree(request) : PosOf(area) <= c)'
  BY <1>4, <1>5, <1>7
<1>9. FitInv'
  BY <1>1, <1>2, <1>7, <1>8 DEF FitInv, Asked, Rejected
<1> QED
  BY <1>1, <1>2, <1>6, <1>7, <1>9 DEF ListInv, NoBest, NoScore

LEMMA FitFoundStep ==
  ASSUME ListInv, FitFound
  PROVE  [Next]_vars /\ ListInv'
<1> DEFINE b == Base(list, area)
<1>1. /\ pc = "fit" /\ area # Null /\ Fits(area)
      /\ need' = TailNeed(list, area, request)
      /\ area' = area /\ pc' = "take" /\ request' = request
      /\ UNCHANGED vars /\ UNCHANGED list
  BY DEF FitFound
<1>2. /\ FitInv /\ Settled(list) /\ ListOK(list) /\ ListOrNone(list) /\ Layout
      /\ area \in InList(list)
  BY <1>1, FitFacts
<1>3. /\ EndOf(b) = Limit(list, area) /\ PosOf(area) = b
  BY <1>1, <1>2, SettledFacts DEF Settled, Layout, PosOf
<1>4. b \in FitsFree(request) /\ need' = TailSize(b, request)
  BY <1>1, <1>2, FitsMeans
<1>5. \A c \in FitsFree(request) : b <= c
  BY <1>2, <1>3 DEF FitInv
<1>6. <<b, EndOf(b), TailSize(b, request)>> \in FirstFit(request)
  BY <1>4, <1>5 DEF FirstFit
<1>7. Cleared(list, area, EndOf(b))
  BY <1>1, <1>2, <1>3, FreeIsCleared DEF Fits
<1>8. PICK hi \in 0 .. MemorySize :
        Cleared(list, area, hi) /\ RoomAt(b, hi, TailSize(b, request), request)
  BY <1>2, <1>6, <1>7, ClearedEnds DEF RoomAt
<1>9. [Next]_vars /\ IInv'
  BY <1>1, Stays
<1>10. Cleared(list, area, hi)'
  BY <1>1, <1>8, Frame
<1>11. RoomAt(Base(list, area), hi, need, request)'
  <2>1. Base(list, area)' = b
    BY <1>1
  <2>2. RoomAt(Base(list, area), hi, need, request)'
          = RoomAt(b, hi, TailSize(b, request), request)
    BY <1>1, <1>4, <2>1, Frame
  <2> QED
    BY <1>8, <2>2
<1>12. TakeInv'
  BY <1>1, <1>2, <1>10, <1>11 DEF TakeInv, FitInv, Asked, Rejected
<1> QED
  BY <1>1, <1>2, <1>9, <1>12, ListFrame DEF ListInv

LEMMA FitNoneStep ==
  ASSUME ListInv, FitNone
  PROVE  [Next]_vars /\ ListInv'
<1>1. /\ pc = "fit" /\ area = Null /\ begin' = list.head
      /\ pc' = "search" /\ request' = request /\ best' = best
      /\ UNCHANGED vars /\ UNCHANGED list
  BY DEF FitNone
<1>2. /\ FitInv /\ Settled(list) /\ ListOrNone(list) /\ Layout /\ best = NoBest
  BY <1>1, FitFacts
<1>3. FitsFree(request) = {}
  <2>1. PosOf(area) = MemorySize
    BY <1>1 DEF PosOf
  <2>2. ASSUME NEW c \in FitsFree(request) PROVE FALSE
    <3>1. c \in DOMAIN areas /\ MemorySize <= c
      BY <1>2, <2>1 DEF FitInv, FitsFree, FreeAreas
    <3> QED
      BY <1>2, <3>1, AreaFacts, PoolAssumption DEF Layout
  <2> QED
    BY <2>2
<1>4. /\ list.head \in InListOrNull
      /\ \A c \in Candidates(request) : ~ c < PosOf(list.head)
  <2>1. \A c \in Candidates(request) : c \in DOMAIN areas /\ c \in Nat
    BY <1>2, AreaFacts DEF Candidates, Layout
  <2>2. PosOf(list.head) \in Nat
    <3>1. list.head # Null => ListOK(list) /\ list.head \in InList(list)
      BY <1>2 DEF ListOrNone, ListOK, Linked
    <3> QED
      BY <3>1, NodeFacts, PoolAssumption DEF PosOf
  <2> QED
    BY <1>2, <2>1, <2>2, HeadFirst
<1>5. [Next]_vars /\ IInv'
  BY <1>1, Stays
<1>6. /\ Settled(list)' /\ ListOrNone(list)' /\ (begin \in InListOrNull)'
      /\ FitsFree(request)' = {}
      /\ Candidates(request)' = Candidates(request)
      /\ PosOf(begin)' = PosOf(list.head)
  BY <1>1, <1>2, <1>3, <1>4, Frame, ListFrame
<1>7. BestInv'
  BY <1>1, <1>2 DEF BestInv, NoBest, NoScore
<1>8. SearchInv'
  BY <1>1, <1>2, <1>4, <1>6, <1>7 DEF SearchInv, FitInv, Asked, Rejected
<1> QED
  BY <1>1, <1>5, <1>6, <1>8 DEF ListInv

-----------------------------------------------------------------------------
(* The search for a region to evict. *)

LEMMA SearchFacts ==
  ASSUME ListInv, pc \in {"search", "scan"}
  PROVE  /\ SearchInv /\ Settled(list) /\ ListOrNone(list) /\ Layout
         /\ request \in Requests /\ ~ Rejected(request)
         /\ pc = "scan" => ScanInv
         /\ InList(list) # {} => ListOK(list)
         /\ \A n \in InListOrNull : n # Null => n \in InList(list) /\ ListOK(list)
<1>1. /\ SearchInv /\ ListOrNone(list) /\ Layout /\ (pc = "scan" => ScanInv)
  BY DEF ListInv, IInv
<1>2. InList(list) # {} => ListOK(list)
  BY <1>1 DEF ListOrNone
<1> QED
  BY <1>1, <1>2 DEF SearchInv, Asked, InListOrNull

\* Records of the list and the areas they stand for, during the search.
LEMMA ListArea ==
  ASSUME Layout, ListOK(list), Settled(list), NEW n \in InList(list)
  PROVE  /\ Base(list, n) \in DOMAIN areas /\ Base(list, n) \in Nat
         /\ areas[Base(list, n)].state = State(list, n)
         /\ areas[Base(list, n)].size = Size(list, n)
         /\ Size(list, n) \in Nat \ {0}
         /\ EndOf(Base(list, n)) = Limit(list, n)
         /\ Limit(list, n) = Base(list, n) + Size(list, n)
         /\ Limit(list, n) \in Nat /\ Limit(list, n) <= MemorySize
         /\ IsAvail(list, n) <=> IsFree(Base(list, n))
         /\ NextOf(list, n) \in InListOrNull
         /\ PosOf(NextOf(list, n)) = Limit(list, n)
         /\ PosOf(n) = Base(list, n) /\ n # Null
         /\ AgeOf(list, n) = Age(Base(list, n))
         /\ \A c \in DOMAIN areas : c < Limit(list, n) => c <= Base(list, n)
<1> DEFINE b == Base(list, n)
<1>1. /\ b \in DOMAIN areas /\ areas[b] = list.node[n].area /\ areas # NoAreas
      /\ EndOf(b) = Limit(list, n)
      /\ b \in FreeAreas <=> IsAvail(list, n)
  BY SettledFacts DEF Settled, Layout
<1>2. /\ b \in Nat /\ Limit(list, n) \in Nat /\ Size(list, n) \in Nat \ {0}
      /\ n # Null
  BY NodeFacts
<1>3. /\ areas[b].state = State(list, n) /\ areas[b].size = Size(list, n)
      /\ Limit(list, n) = b + Size(list, n)
      /\ IsAvail(list, n) <=> IsFree(b)
      /\ AgeOf(list, n) = Age(b)
  BY <1>1 DEF State, Size, Limit, IsAvail, IsFree, AgeOf, Age
<1>4. \A c \in DOMAIN areas : c < Limit(list, n) => c <= b
  BY <1>1, <1>2, AreaFacts DEF Layout, Tiling
<1>5. Limit(list, n) <= MemorySize
  <2>1. EndOf(b) \in DOMAIN areas \cup {MemorySize}
    BY <1>1 DEF Layout, Tiling
  <2> QED
    BY <1>1, <2>1, AreaFacts, PoolAssumption DEF Layout
<1>6. NextOf(list, n) \in InListOrNull
  BY NextFacts DEF InListOrNull
<1>7. PosOf(n) = b
  BY <1>2 DEF PosOf
<1> QED
  BY <1>1, <1>2, <1>3, <1>4, <1>5, <1>6, <1>7, NextPos

\* What the loop over begin keeps, when it moves to n with best as best'.
LEMMA SearchGoesOn ==
  ASSUME ListInv, SearchInv, UNCHANGED vars, UNCHANGED list, request' = request,
         begin' \in InListOrNull, BestInv',
         \A c \in Candidates(request) : c < PosOf(begin') =>
           best'.at # Null /\ best'.score <= Score(c, request)
  PROVE  /\ SearchInv' /\ [Next]_vars /\ IInv' /\ ListOrNone(list)'
<1>1. /\ Settled(list)' /\ ListOrNone(list)' /\ (begin \in InListOrNull)'
      /\ FitsFree(request)' = {}
      /\ Candidates(request)' = Candidates(request)
      /\ PosOf(begin)' = PosOf(begin')
      /\ \A c : Score(c, request)' = Score(c, request)
  BY Frame, ListFrame DEF SearchInv, ListInv
<1>2. Asked'
  BY DEF SearchInv, Asked, Rejected
<1>3. (\A c \in Candidates(request) : c < PosOf(begin) =>
         best.at # Null /\ best.score <= Score(c, request))'
  BY <1>1
<1>4. [Next]_vars /\ IInv'
  BY Stays
<1> QED
  BY <1>1, <1>2, <1>3, <1>4 DEF SearchInv

LEMMA BestKept ==
  ASSUME BestInv, UNCHANGED vars, UNCHANGED list, request' = request, best' = best
  PROVE  BestInv'
<1>1. /\ Candidates(request)' = Candidates(request)
      /\ \A c : Score(c, request)' = Score(c, request)
      /\ InList(list)' = InList(list)
      /\ Base(list, best.at)' = Base(list, best.at)
  BY Frame, ListFrame
<1> QED
  BY <1>1 DEF BestInv, NoBest, NoScore

LEMMA SkipLockedStep ==
  ASSUME ListInv, SkipLocked
  PROVE  [Next]_vars /\ ListInv'
<1> DEFINE next == NextOf(list, begin)
           b    == Base(list, begin)
<1>1. /\ pc = "search" /\ begin # Null /\ State(list, begin) = Locked
      /\ begin' = next /\ pc' = pc /\ request' = request /\ best' = best
      /\ UNCHANGED vars /\ UNCHANGED list
  BY DEF SkipLocked
<1>2. /\ SearchInv /\ Settled(list) /\ ListOK(list) /\ Layout
      /\ request \in Requests /\ ~ Rejected(request)
      /\ begin \in InList(list)
  BY <1>1, SearchFacts DEF SearchInv
<1>3. /\ b \in DOMAIN areas /\ b \in Nat /\ areas[b].state = Locked
      /\ next \in InListOrNull /\ PosOf(begin) = b
      /\ PosOf(next) = Limit(list, begin)
      /\ \A c \in DOMAIN areas : c < Limit(list, begin) => c <= b
  BY <1>1, <1>2, ListArea
<1>4. b \notin Candidates(request)
  <2>1. HeadSize(b, request) \in Nat /\ request.size \in Nat \ {0}
        /\ request.size <= HeadSize(b, request)
    BY <1>2, <1>3, SizeFacts DEF Layout
  <2>2. b \in Span(b, HeadSize(b, request))
    BY <1>3, <2>1 DEF Span
  <2> QED
    BY <1>3, <2>2 DEF Candidates
<1>5. ASSUME NEW c \in Candidates(request), c < PosOf(next)
      PROVE  best.at # Null /\ best.score <= Score(c, request)
  <2>1. c \in DOMAIN areas /\ c \in Nat /\ c < b
    BY <1>2, <1>3, <1>4, <1>5, AreaFacts DEF Candidates, Layout
  <2> QED
    BY <1>2, <1>3, <2>1 DEF SearchInv
<1>6. BestInv'
  BY <1>1, <1>2, BestKept DEF SearchInv
<1>7. SearchInv' /\ [Next]_vars /\ IInv' /\ ListOrNone(list)'
  BY <1>1, <1>2, <1>3, <1>5, <1>6, SearchGoesOn
<1> QED
  BY <1>1, <1>7 DEF ListInv

LEMMA ScanFromStep ==
  ASSUME ListInv, ScanFrom
  PROVE  [Next]_vars /\ ListInv'
<1> DEFINE b == Base(list, begin)
<1>1. /\ pc = "search" /\ begin # Null
      /\ need' = HeadSize(b, request)
      /\ scan' = [at |-> begin, avail |-> 0, score |-> 0]
      /\ begin' = begin /\ pc' = "scan" /\ request' = request /\ best' = best
      /\ UNCHANGED vars /\ UNCHANGED list
  BY DEF ScanFrom
<1>2. /\ SearchInv /\ Settled(list) /\ ListOK(list) /\ Layout
      /\ request \in Requests /\ ~ Rejected(request)
      /\ begin \in InList(list)
  BY <1>1, SearchFacts DEF SearchInv
<1>3. b \in DOMAIN areas /\ b \in Nat /\ PosOf(begin) = b /\ begin \in InListOrNull
  BY <1>2, ListArea DEF InListOrNull
<1>4. 0 < HeadSize(b, request)
  BY <1>2, <1>3, SizeFacts DEF Layout
<1>5. BestInv'
  BY <1>1, <1>2, BestKept DEF SearchInv
<1>6. SearchInv' /\ [Next]_vars /\ IInv' /\ ListOrNone(list)'
  BY <1>1, <1>2, <1>3, <1>5, SearchGoesOn DEF SearchInv
<1>7. /\ Base(list, begin)' = b /\ PosOf(scan.at)' = b
      /\ InListOrNull' = InListOrNull /\ InList(list)' = InList(list)
      /\ scan'.at = begin /\ scan'.avail = 0 /\ scan'.score = 0
      /\ HeadSize(b, request) = HeadSize(Base(list, begin), request)'
  <2>1. PosOf(scan.at)' = PosOf(begin)
    BY <1>1, ListFrame
  <2> QED
    BY <1>1, <1>3, <2>1, ListFrame
<1>8. Scanned' = {}
  <2>1. \A c \in DOMAIN areas : c \in Nat /\ areas' = areas
    BY <1>1, <1>2, AreaFacts DEF vars, Layout
  <2> QED
    BY <1>3, <1>7, <2>1 DEF Scanned
<1>9. Total'[{}] = 0
  <2>1. Total[{}] = 0 /\ Total' = Total
    BY <1>1, <1>2, TotalFacts, Frame DEF Layout
  <2> QED
    BY <2>1
<1>10. ScanInv'
  <2>1. ScoreScale \in Nat
    BY CounterAssumption
  <2> HIDE DEF b
  <2> QED
    BY <1>1, <1>2, <1>3, <1>4, <1>7, <1>8, <1>9, <2>1 DEF ScanInv
<1> QED
  BY <1>1, <1>6, <1>10 DEF ListInv

LEMMA ScanFacts ==
  ASSUME ListInv, pc = "scan"
  PROVE  LET b == Base(list, begin)
         IN  /\ SearchInv /\ ScanInv /\ Settled(list) /\ ListOK(list) /\ Layout
             /\ request \in Requests /\ ~ Rejected(request)
             /\ begin \in InList(list) /\ begin \in InListOrNull
             /\ b \in DOMAIN areas /\ b \in Nat
             /\ need = HeadSize(b, request) /\ need \in Nat \ {0}
             /\ scan.at # Null => scan.at \in InList(list)
             /\ PosOf(scan.at) \in Nat /\ b <= PosOf(scan.at)
             /\ scan.avail = PosOf(scan.at) - b /\ scan.avail < need
             /\ scan.avail \in Nat
<1>1. /\ SearchInv /\ ScanInv /\ Settled(list) /\ Layout
      /\ request \in Requests /\ ~ Rejected(request)
      /\ begin \in InList(list) /\ ListOK(list)
      /\ scan.at # Null => scan.at \in InList(list)
  BY SearchFacts DEF ScanInv
<1>2. Base(list, begin) \in DOMAIN areas /\ Base(list, begin) \in Nat
  BY <1>1, ListArea
<1>3. HeadSize(Base(list, begin), request) \in Nat \ {0}
  BY <1>1, <1>2, SizeFacts DEF Layout
<1>4. PosOf(scan.at) \in Nat
  BY <1>1, NodeFacts, PoolAssumption DEF PosOf
<1> QED
  BY <1>1, <1>2, <1>3, <1>4 DEF ScanInv, InListOrNull

\* A scan that fails leaves no candidate behind, up to the record that the
\* loop over begin goes on after.
LEMMA NoneSkipped ==
  ASSUME ListInv, pc = "scan", ~ CanScan
  PROVE  /\ Resume(FALSE) \in InList(list)
         /\ \A c \in Candidates(request) :
              c < Limit(list, Resume(FALSE)) => c < Base(list, begin)
<1> DEFINE b == Base(list, begin)
<1>1. /\ ScanInv /\ Settled(list) /\ ListOK(list) /\ Layout
      /\ request \in Requests /\ ~ Rejected(request)
      /\ begin \in InList(list) /\ b \in DOMAIN areas /\ b \in Nat
      /\ need = HeadSize(b, request) /\ need \in Nat \ {0}
      /\ scan.at # Null => scan.at \in InList(list)
      /\ b <= PosOf(scan.at) /\ scan.avail = PosOf(scan.at) - b
      /\ scan.avail < need
  BY ScanFacts
<1>2. \A c \in Candidates(request) :
        /\ c \in DOMAIN areas /\ c \in Nat
        /\ HeadSize(c, request) \in Nat /\ c + HeadSize(c, request) <= MemorySize
        /\ \A d \in DOMAIN areas :
             c <= d /\ d < c + HeadSize(c, request) => areas[d].state # Locked
  BY <1>1, CandidateFacts, AreaFacts DEF Layout
<1>3. CASE scan.at = Null
  <2>1. Resume(FALSE) = begin /\ PosOf(scan.at) = MemorySize
    BY <1>3 DEF Resume, PosOf
  <2>2. MemorySize < b + need
    BY <1>1, <2>1, PoolAssumption
  <2>3. ASSUME NEW c \in Candidates(request), c < Limit(list, begin) PROVE c < b
    <3>1. c <= b
      BY <1>1, <1>2, <2>3, ListArea
    <3>2. c # b
      BY <1>1, <1>2, <2>2, PoolAssumption
    <3> QED
      BY <1>1, <1>2, <3>1, <3>2
  <2> QED
    BY <1>1, <2>1, <2>3
<1>4. CASE scan.at # Null
  <2> DEFINE p == Base(list, scan.at)
  <2>1. Resume(FALSE) = scan.at /\ State(list, scan.at) = Locked
    BY <1>4 DEF Resume, CanScan
  <2>2. /\ p \in DOMAIN areas /\ p \in Nat /\ areas[p].state = Locked
        /\ PosOf(scan.at) = p
    BY <1>1, <1>4, <2>1, ListArea
  <2>3. p < b + need
    BY <1>1, <2>2
  <2>4. ASSUME NEW c \in Candidates(request), c < Limit(list, scan.at) PROVE c < b
    <3>1. SUFFICES ASSUME b <= c PROVE FALSE
      BY <1>1, <1>2
    <3>2. c <= p
      BY <1>1, <1>2, <1>4, <2>4, ListArea
    <3>3. b + need <= c + HeadSize(c, request)
      BY <1>1, <1>2, <3>1, HeadMonotone
    <3>4. p < c + HeadSize(c, request)
      BY <1>1, <1>2, <2>2, <2>3, <3>3
    <3> QED
      BY <1>2, <2>2, <3>2, <3>4
  <2> QED
    BY <1>1, <1>4, <2>1, <2>4
<1> QED
  BY <1>3, <1>4

LEMMA ScanFailsStep ==
  ASSUME ListInv, ScanFails
  PROVE  [Next]_vars /\ ListInv'
<1> DEFINE n == Resume(FALSE)
           next == NextOf(list, n)
<1>1. /\ pc = "scan" /\ ~ CanScan
      /\ begin' = next /\ pc' = "search" /\ request' = request /\ best' = best
      /\ UNCHANGED vars /\ UNCHANGED list
  BY DEF ScanFails
<1>2. /\ n \in InList(list)
      /\ \A c \in Candidates(request) :
           c < Limit(list, n) => c < Base(list, begin)
  BY <1>1, NoneSkipped
<1>3. /\ SearchInv /\ Settled(list) /\ ListOK(list) /\ Layout
      /\ begin \in InList(list)
  BY <1>1, ScanFacts
<1> HIDE DEF n
<1>4. /\ next \in InListOrNull /\ PosOf(next) = Limit(list, n)
      /\ PosOf(begin) = Base(list, begin)
  BY <1>2, <1>3, ListArea
<1>5. ASSUME NEW c \in Candidates(request), c < PosOf(next)
      PROVE  best.at # Null /\ best.score <= Score(c, request)
  BY <1>2, <1>3, <1>4, <1>5 DEF SearchInv
<1>6. BestInv'
  BY <1>1, <1>3, BestKept DEF SearchInv
<1>7. SearchInv' /\ [Next]_vars /\ IInv' /\ ListOrNone(list)'
  BY <1>1, <1>3, <1>4, <1>5, <1>6, SearchGoesOn
<1> QED
  BY <1>1, <1>7 DEF ListInv

\* One more area scanned.
Reached == Scanned \cup {Base(list, scan.at)}

LEMMA ReachedFacts ==
  ASSUME ListInv, pc = "scan", CanScan
  PROVE  LET b == Base(list, begin)
             p == Base(list, scan.at)
         IN  /\ scan.at \in InList(list)
             /\ AvailNow = Limit(list, scan.at) - b /\ AvailNow \in Nat
             /\ Reached = {c \in DOMAIN areas : b <= c /\ c < Limit(list, scan.at)}
             /\ ScoreNow = Total[Reached] /\ ScoreNow \in Nat
             /\ \A c \in Reached : areas[c].state # Locked
             /\ IF \E c \in Reached : Age(c) = 0
                THEN Infinite <= ScoreNow
                ELSE ScoreNow <= AvailNow * ScoreScale
<1> DEFINE b == Base(list, begin)
           p == Base(list, scan.at)
<1>1. /\ ScanInv /\ Settled(list) /\ ListOK(list) /\ Layout
      /\ b \in Nat /\ b <= PosOf(scan.at) /\ scan.avail = PosOf(scan.at) - b
      /\ scan.avail \in Nat
  BY ScanFacts
<1>2. scan.at \in InList(list) /\ State(list, scan.at) # Locked
  BY ScanFacts DEF CanScan
<1>3. /\ p \in DOMAIN areas /\ p \in Nat /\ PosOf(scan.at) = p
      /\ areas[p].state # Locked /\ areas[p].size = Size(list, scan.at)
      /\ Size(list, scan.at) \in Nat \ {0}
      /\ Limit(list, scan.at) = p + Size(list, scan.at)
      /\ AgeOf(list, scan.at) = Age(p)
      /\ \A c \in DOMAIN areas : c < Limit(list, scan.at) => c <= p
  BY <1>1, <1>2, ListArea
<1>4. /\ Scanned \in SUBSET DOMAIN areas
      /\ Scanned = {c \in DOMAIN areas : b <= c /\ c < p}
      /\ scan.score = Total[Scanned]
      /\ \A c \in Scanned : areas[c].state # Locked
      /\ IF \E c \in Scanned : Age(c) = 0
         THEN Infinite <= scan.score
         ELSE scan.score <= scan.avail * ScoreScale
  BY <1>1, <1>3 DEF ScanInv, Scanned
<1>5. \A c \in DOMAIN areas : c \in Nat
  BY <1>1, AreaFacts DEF Layout
<1>6. Reached = {c \in DOMAIN areas : b <= c /\ c < Limit(list, scan.at)}
  BY <1>1, <1>3, <1>4, <1>5 DEF Reached
<1>7. p \notin Scanned /\ Reached \in SUBSET DOMAIN areas /\ Reached \ {p} = Scanned
      /\ p \in Reached
  BY <1>3, <1>4, <1>5 DEF Reached
<1>8. AreaScore(list, scan.at) = Weights[p]
  BY <1>3 DEF AreaScore, Weights, NoScore, Infinite
<1>9. /\ Total[Reached] = Weights[p] + Total[Scanned]
      /\ Total[Scanned] \in Nat /\ Total[Reached] \in Nat /\ Weights[p] \in Nat
  <2>1. \A S \in SUBSET DOMAIN areas : \A y \in S :
          Total[S] = Weights[y] + Total[S \ {y}]
    BY <1>1, TotalFacts DEF Layout
  <2>2. Total \in [SUBSET DOMAIN areas -> Nat] /\ Weights \in [DOMAIN areas -> Nat]
    BY <1>1, TotalFacts, WeightFacts DEF Layout
  <2>3. Total[Reached] = Weights[p] + Total[Reached \ {p}]
    BY <1>7, <2>1
  <2> QED
    BY <1>3, <1>4, <1>7, <2>2, <2>3
<1>10. AvailNow = Limit(list, scan.at) - b /\ AvailNow \in Nat
       /\ AvailNow = scan.avail + areas[p].size
  BY <1>1, <1>3 DEF AvailNow
<1>11. ScoreNow = Total[Reached] /\ ScoreNow = scan.score + Weights[p]
  BY <1>4, <1>8, <1>9 DEF ScoreNow
<1>12. IF \E c \in Reached : Age(c) = 0
       THEN Infinite <= ScoreNow
       ELSE ScoreNow <= AvailNow * ScoreScale
  <2>1. Infinite \in Nat /\ ScoreScale \in Nat /\ scan.score \in Nat
        /\ areas[p].size \in Nat
    BY <1>3, <1>4, <1>9, PoolAssumption, CounterAssumption DEF Infinite
  <2>2. CASE \E c \in Scanned : Age(c) = 0
    BY <1>4, <1>9, <1>11, <2>1, <2>2 DEF Reached
  <2>3. CASE Age(p) = 0
    <3>1. Weights[p] = Infinite
      BY <1>3, <2>3 DEF Weights
    <3> QED
      BY <1>7, <1>11, <2>1, <2>3, <3>1
  <2>4. CASE ~ (\E c \in Scanned : Age(c) = 0) /\ Age(p) # 0
    <3>1. ~ \E c \in Reached : Age(c) = 0
      BY <2>4 DEF Reached
    <3>2. Weights[p] <= areas[p].size * ScoreScale
      BY <1>1, <1>3, <2>4, WeightFacts DEF Layout
    <3>3. scan.score <= scan.avail * ScoreScale
      BY <1>4, <2>4
    <3> DEFINE x == scan.avail
               y == areas[p].size
    <3>4. x \in Nat /\ y \in Nat /\ AvailNow = x + y
      BY <1>1, <1>10, <2>1
    <3>5. /\ x * ScoreScale \in Nat /\ y * ScoreScale \in Nat
          /\ (x + y) * ScoreScale = x * ScoreScale + y * ScoreScale
      <4> HIDE DEF x, y
      <4> QED
        BY <2>1, <3>4
    <3>6. scan.score + Weights[p] <= x * ScoreScale + y * ScoreScale
      <4> DEFINE u == x * ScoreScale
                 v == y * ScoreScale
      <4>1. u \in Nat /\ v \in Nat /\ scan.score <= u /\ Weights[p] <= v
        BY <3>2, <3>3, <3>5
      <4> HIDE DEF u, v
      <4>2. scan.score + Weights[p] <= u + v
        BY <1>9, <2>1, <4>1
      <4> QED
        BY <4>2 DEF u, v
    <3> HIDE DEF x, y
    <3> QED
      BY <1>11, <3>1, <3>4, <3>5, <3>6
  <2> QED
    BY <2>2, <2>3, <2>4
<1>13. \A c \in Reached : areas[c].state # Locked
  BY <1>3, <1>4 DEF Reached
<1> QED
  BY <1>2, <1>6, <1>9, <1>10, <1>11, <1>12, <1>13

LEMMA ScanNextStep ==
  ASSUME ListInv, ScanNext
  PROVE  [Next]_vars /\ ListInv'
<1> DEFINE next == NextOf(list, scan.at)
           b    == Base(list, begin)
<1>1. /\ pc = "scan" /\ CanScan /\ AvailNow < need
      /\ scan' = [at |-> next, avail |-> AvailNow, score |-> ScoreNow]
      /\ pc' = pc /\ request' = request /\ need' = need
      /\ begin' = begin /\ best' = best
      /\ UNCHANGED vars /\ UNCHANGED list
  BY DEF ScanNext
<1>2. /\ SearchInv /\ Settled(list) /\ ListOK(list) /\ Layout
      /\ begin \in InList(list) /\ begin \in InListOrNull
      /\ b \in Nat /\ need = HeadSize(b, request)
  BY <1>1, ScanFacts
<1>3. /\ scan.at \in InList(list)
      /\ AvailNow = Limit(list, scan.at) - b /\ AvailNow \in Nat
      /\ Reached = {c \in DOMAIN areas : b <= c /\ c < Limit(list, scan.at)}
      /\ ScoreNow = Total[Reached]
      /\ \A c \in Reached : areas[c].state # Locked
      /\ IF \E c \in Reached : Age(c) = 0
         THEN Infinite <= ScoreNow
         ELSE ScoreNow <= AvailNow * ScoreScale
  BY <1>1, ReachedFacts
<1>4. /\ next \in InListOrNull /\ PosOf(next) = Limit(list, scan.at)
      /\ Limit(list, scan.at) \in Nat
  BY <1>2, <1>3, ListArea
<1>5. BestInv'
  BY <1>1, <1>2, BestKept DEF SearchInv
<1>6. SearchInv' /\ [Next]_vars /\ IInv' /\ ListOrNone(list)'
  BY <1>1, <1>2, <1>5, SearchGoesOn DEF SearchInv
<1> HIDE DEF next
<1>7. /\ Base(list, begin)' = b /\ PosOf(scan.at)' = Limit(list, scan.at)
      /\ InListOrNull' = InListOrNull /\ InList(list)' = InList(list)
      /\ scan'.at = next /\ scan'.avail = AvailNow /\ scan'.score = ScoreNow
      /\ HeadSize(Base(list, begin), request)' = HeadSize(b, request)
      /\ Total' = Total /\ areas' = areas
      /\ \A c : Age(c)' = Age(c)
  <2>1. scan'.at = next /\ scan'.avail = AvailNow /\ scan'.score = ScoreNow
    BY <1>1
  <2>2. PosOf(scan.at)' = PosOf(next)
    BY <1>1, <2>1, ListFrame
  <2>3. Base(list, begin)' = b
    BY <1>1
  <2> QED
    BY <1>1, <1>4, <2>1, <2>2, <2>3, Frame, ListFrame DEF vars
<1>8. Scanned' = Reached
  BY <1>3, <1>7 DEF Scanned
<1>9. (IF \E c \in Scanned : Age(c) = 0
       THEN Infinite <= scan.score
       ELSE scan.score <= scan.avail * ScoreScale)'
  BY <1>3, <1>7, <1>8 DEF Infinite
<1>10. (\A c \in Scanned : areas[c].state # Locked)'
  BY <1>3, <1>7, <1>8
<1>11. (scan.score = Total[Scanned])'
  BY <1>3, <1>7, <1>8
<1>12. (Base(list, begin) <= PosOf(scan.at)
        /\ scan.avail = PosOf(scan.at) - Base(list, begin))'
  BY <1>2, <1>3, <1>4, <1>7
<1>13. ScanInv'
  BY <1>1, <1>2, <1>4, <1>7, <1>9, <1>10, <1>11, <1>12 DEF ScanInv
<1> QED
  BY <1>1, <1>6, <1>13 DEF ListInv

\* What a scan that has enough says of the area it began in.
LEMMA EnoughFacts ==
  ASSUME ListInv, pc = "scan", CanScan, need <= AvailNow
  PROVE  LET b == Base(list, begin)
         IN  /\ b \in Candidates(request) =>
                  ScoreNow = Score(b, request) /\ ScoreNow < NoScore
             /\ b \notin Candidates(request) => NoScore <= ScoreNow
<1> DEFINE b == Base(list, begin)
           S == Span(b, HeadSize(b, request))
<1>1. /\ Settled(list) /\ ListOK(list) /\ Layout
      /\ request \in Requests /\ ~ Rejected(request)
      /\ b \in DOMAIN areas /\ b \in Nat
      /\ need = HeadSize(b, request) /\ need \in Nat \ {0}
      /\ scan.avail = PosOf(scan.at) - b /\ scan.avail < need
  BY ScanFacts
<1>2. /\ scan.at \in InList(list)
      /\ AvailNow = Limit(list, scan.at) - b /\ AvailNow \in Nat
      /\ Reached = {c \in DOMAIN areas : b <= c /\ c < Limit(list, scan.at)}
      /\ ScoreNow = Total[Reached] /\ ScoreNow \in Nat
      /\ \A c \in Reached : areas[c].state # Locked
      /\ IF \E c \in Reached : Age(c) = 0
         THEN Infinite <= ScoreNow
         ELSE ScoreNow <= AvailNow * ScoreScale
  BY ReachedFacts
<1>3. /\ Limit(list, scan.at) \in Nat /\ Limit(list, scan.at) <= MemorySize
      /\ PosOf(scan.at) = Base(list, scan.at) /\ Base(list, scan.at) \in Nat
      /\ \A c \in DOMAIN areas :
           c < Limit(list, scan.at) => c <= Base(list, scan.at)
  BY <1>1, <1>2, ListArea
<1>4. \A c \in DOMAIN areas : c \in Nat
  BY <1>1, AreaFacts DEF Layout
<1>5. S = Reached
  BY <1>1, <1>2, <1>3, <1>4 DEF Span
<1>6. b + HeadSize(b, request) <= MemorySize
  BY <1>1, <1>2, <1>3, PoolAssumption
<1>7. b \in Candidates(request) <=> ~ \E c \in Reached : Age(c) = 0
  BY <1>1, <1>2, <1>5, <1>6 DEF Candidates
<1>8. NoScore = Infinite /\ NoScore \in Nat
  BY PoolAssumption, CounterAssumption DEF NoScore, Infinite
<1>9. ASSUME b \in Candidates(request)
      PROVE  ScoreNow = Score(b, request) /\ ScoreNow < NoScore
  <2>1. ScoreNow = Score(b, request)
    BY <1>1, <1>2, <1>5, <1>9, ScoreIsTotal DEF Layout
  <2>2. ScoreNow <= AvailNow * ScoreScale
    BY <1>2, <1>7, <1>9
  <2>3. AvailNow <= MemorySize
    BY <1>1, <1>2, <1>3, PoolAssumption
  <2>4. AvailNow * ScoreScale <= ScoreScale * MemorySize
    <3> DEFINE x == AvailNow
    <3>1. x \in Nat /\ x <= MemorySize /\ MemorySize \in Nat /\ ScoreScale \in Nat
      BY <1>2, <2>3, PoolAssumption, CounterAssumption
    <3> HIDE DEF x
    <3>2. x * ScoreScale <= ScoreScale * MemorySize
      BY <3>1
    <3> QED
      BY <3>2 DEF x
  <2>5. ScoreNow < NoScore
    <3> DEFINE u == AvailNow * ScoreScale
               v == ScoreScale * MemorySize
    <3>1. u \in Nat /\ v \in Nat
      BY <1>2, PoolAssumption, CounterAssumption
    <3>2. u <= v /\ ScoreNow <= u /\ NoScore = v + 1
      BY <2>2, <2>4 DEF NoScore
    <3> HIDE DEF u, v
    <3> QED
      BY <1>2, <3>1, <3>2
  <2> QED
    BY <2>1, <2>5
<1>10. b \notin Candidates(request) => NoScore <= ScoreNow
  BY <1>2, <1>7, <1>8
<1> QED
  BY <1>9, <1>10

LEMMA ScanEnoughStep ==
  ASSUME ListInv, ScanEnough
  PROVE  [Next]_vars /\ ListInv'
<1> DEFINE b    == Base(list, begin)
           next == NextOf(list, begin)
<1>1. /\ pc = "scan" /\ CanScan /\ need <= AvailNow
      /\ best' = IF Better(ScoreNow) THEN [at |-> begin, score |-> ScoreNow]
                 ELSE best
      /\ begin' = NextOf(list, Resume(TRUE))
      /\ pc' = "search" /\ request' = request
      /\ UNCHANGED vars /\ UNCHANGED list
  BY DEF ScanEnough
<1>2. /\ SearchInv /\ Settled(list) /\ ListOK(list) /\ Layout
      /\ begin \in InList(list) /\ b \in DOMAIN areas /\ b \in Nat
  BY <1>1, ScanFacts
<1>3. ScoreNow \in Nat
  BY <1>1, ReachedFacts
<1>4. /\ b \in Candidates(request) =>
           ScoreNow = Score(b, request) /\ ScoreNow < NoScore
      /\ b \notin Candidates(request) => NoScore <= ScoreNow
  BY <1>1, EnoughFacts
<1>5. begin' = next
  BY <1>1 DEF Resume
<1>6. /\ next \in InListOrNull /\ PosOf(next) = Limit(list, begin)
      /\ PosOf(begin) = b /\ begin # Null
      /\ \A c \in DOMAIN areas : c < Limit(list, begin) => c <= b
  BY <1>2, ListArea
<1>7. /\ best.score \in Nat /\ best.score <= NoScore
      /\ best.at = Null => best.score = NoScore
      /\ \A c \in Candidates(request) : c < b =>
           best.at # Null /\ best.score <= Score(c, request)
      /\ \A c \in Candidates(request) :
           c \in DOMAIN areas /\ c \in Nat /\ Score(c, request) \in Nat
  <2>1. \A c \in Candidates(request) :
          c \in DOMAIN areas /\ c \in Nat /\ Score(c, request) \in Nat
    BY <1>2, AreaFacts, ScoreIsTotal DEF Layout, Candidates
  <2>2. NoScore \in Nat
    BY PoolAssumption, CounterAssumption DEF NoScore
  <2>3. BestInv /\ \A c \in Candidates(request) : c < b =>
           best.at # Null /\ best.score <= Score(c, request)
    BY <1>2, <1>6 DEF SearchInv
  <2>4. CASE best.at = Null
    BY <2>1, <2>2, <2>3, <2>4 DEF BestInv, NoBest
  <2>5. CASE best.at # Null
    BY <2>1, <2>2, <2>3, <2>5 DEF BestInv
  <2> QED
    BY <2>4, <2>5
<1>8. NoScore \in Nat
  BY PoolAssumption, CounterAssumption DEF NoScore
<1>9. \A c \in Candidates(request) : c < PosOf(next) => c < b \/ c = b
  BY <1>2, <1>6, <1>7
<1> HIDE DEF b, next
<1>10. CASE Better(ScoreNow)
  <2>1. best'.at = begin /\ best'.score = ScoreNow /\ ScoreNow < best.score
    BY <1>1, <1>10 DEF Better
  <2>2. b \in Candidates(request) /\ ScoreNow = Score(b, request) /\ ScoreNow < NoScore
    BY <1>3, <1>4, <1>7, <1>8, <2>1
  <2>3. BestInv'
    <3>1. /\ Candidates(request)' = Candidates(request)
          /\ InList(list)' = InList(list)
          /\ Base(list, best.at)' = b
          /\ Score(Base(list, best.at), request)' = Score(b, request)
      <4>1. Base(list, best.at)' = b
        BY <1>1, <2>1 DEF b
      <4>2. \A c : Score(c, request)' = Score(c, request)
        BY <1>1, Frame
      <4> QED
        BY <1>1, <4>1, <4>2, Frame, ListFrame
    <3> QED
      BY <1>2, <1>6, <2>1, <2>2, <3>1 DEF BestInv, NoScore
  <2>4. ASSUME NEW c \in Candidates(request), c < PosOf(begin')
        PROVE  best'.at # Null /\ best'.score <= Score(c, request)
    <3>1. c < b \/ c = b
      BY <1>5, <1>9, <2>4
    <3>2. c < b => ScoreNow <= Score(c, request)
      BY <1>3, <1>7, <2>1
    <3> QED
      BY <1>3, <1>6, <2>1, <2>2, <3>1, <3>2
  <2>5. SearchInv' /\ [Next]_vars /\ IInv' /\ ListOrNone(list)'
    BY <1>1, <1>2, <1>5, <1>6, <2>3, <2>4, SearchGoesOn
  <2> QED
    BY <1>1, <2>5 DEF ListInv
<1>11. CASE ~ Better(ScoreNow)
  <2>1. best' = best /\ best.score <= ScoreNow
    BY <1>1, <1>3, <1>7, <1>11 DEF Better
  <2>2. BestInv'
    BY <1>1, <1>2, <2>1, BestKept DEF SearchInv
  <2>3. ASSUME NEW c \in Candidates(request), c < PosOf(begin')
        PROVE  best'.at # Null /\ best'.score <= Score(c, request)
    <3>1. c < b \/ c = b
      BY <1>5, <1>9, <2>3
    <3>2. CASE c < b
      BY <1>7, <2>1, <3>2
    <3>3. CASE c = b
      <4>1. ScoreNow = Score(c, request) /\ ScoreNow < NoScore
        BY <1>4, <3>3
      <4>2. best.at # Null
        BY <1>3, <1>7, <1>8, <2>1, <4>1
      <4> QED
        BY <2>1, <4>1, <4>2
    <3> QED
      BY <3>1, <3>2, <3>3
  <2>4. SearchInv' /\ [Next]_vars /\ IInv' /\ ListOrNone(list)'
    BY <1>1, <1>2, <1>5, <1>6, <2>2, <2>3, SearchGoesOn
  <2> QED
    BY <1>1, <2>4 DEF ListInv
<1> QED
  BY <1>10, <1>11

LEMMA NoSpaceStep ==
  ASSUME ListInv, NoSpace
  PROVE  [Next]_vars /\ ListInv'
<1>1. /\ pc = "search" /\ pc' = "idle" /\ Idle'
      /\ UNCHANGED vars /\ UNCHANGED list
  BY DEF NoSpace, Finish, Idle, NoRequest, NoScan, NoBest, NoScore
<1>2. Settled(list) /\ ListOrNone(list)
  BY <1>1, SearchFacts
<1>3. Settled(list)' /\ ListOrNone(list)' /\ [Next]_vars /\ IInv'
  BY <1>1, <1>2, Frame, ListFrame, Stays
<1> QED
  BY <1>1, <1>3 DEF ListInv

-----------------------------------------------------------------------------
(* Making room. *)

\* Where the region for a cheapest area begins.
LEMMA RoomBegins ==
  ASSUME Layout, NEW r \in Requests, FitsFree(r) = {}, NEW b \in Cheapest(r)
  PROVE  /\ IsFree(b) => RoomAt(b, EndOf(b), HeadSize(b, r), r)
         /\ ~ IsFree(b) => RoomAt(LeftEdge(b), RightEdge(b), HeadSize(b, r), r)
<1> DEFINE n == HeadSize(b, r)
<1>1. b \in DOMAIN areas
  BY DEF Cheapest, Candidates
<1>2. \A d \in DOMAIN areas :
        /\ d \in Nat /\ EndOf(d) \in Nat /\ d < EndOf(d)
        /\ \A e \in DOMAIN areas : d < e => EndOf(d) <= e
  BY <1>1, AreaFacts, NonEmpty DEF Layout, Tiling
<1>3. ASSUME IsFree(b) PROVE RoomAt(b, EndOf(b), n, r)
  <2>1. ASSUME NEW f \in Stops(b, b, n) PROVE EndOf(b) <= f
    <3>1. PICK c \in DOMAIN areas : b <= c /\ f = EndOf(c)
      BY DEF Stops
    <3>2. b = c \/ b < c
      BY <1>1, <1>2, <3>1
    <3> QED
      BY <1>1, <1>2, <3>1, <3>2
  <2> QED
    BY <1>1, <1>2, <1>3, <2>1 DEF RoomAt
<1>4. ASSUME ~ IsFree(b) PROVE RoomAt(LeftEdge(b), RightEdge(b), n, r)
  <2>1. b \in Used
    BY <1>1, <1>4 DEF Used, IsUsed, IsFree
  <2>2. EndOf(b) <= RightEdge(b) /\ Block(LeftEdge(b), RightEdge(b))
    BY <2>1, FreedBlock
  <2>3. RightEdge(b) \in Nat
    BY <1>2, <2>2, PoolAssumption DEF Block
  <2>4. ASSUME NEW f \in Stops(b, LeftEdge(b), n) PROVE RightEdge(b) <= f
    <3>1. PICK c \in DOMAIN areas :
            b <= c /\ f = EndOf(c) /\ EndOf(c) \notin FreeAreas
      BY DEF Stops
    <3> QED
      BY <2>1, <3>1, EdgeBeforeStop
  <2>5. b < RightEdge(b)
    BY <1>1, <1>2, <2>2, <2>3
  <2> QED
    BY <1>4, <2>4, <2>5 DEF RoomAt
<1> QED
  BY <1>3, <1>4

\* The invariant of what follows, whichever list it starts from.
LEMMA TakeBegins ==
  ASSUME ListInv, UNCHANGED vars, request' = request,
         request \in Requests, ~ Rejected(request),
         NEW hi, ListOK(list'), Cleared(list', area', hi),
         RoomAt(Base(list', area'), hi, need', request)
  PROVE  TakeInv' /\ [Next]_vars /\ IInv' /\ ListOrNone(list)'
<1>1. hi \in 0 .. MemorySize
  BY ClearedEnds DEF ListInv, IInv
<1>2. /\ Cleared(list, area, hi)'
      /\ RoomAt(Base(list, area), hi, need, request)'
  BY Frame
<1>3. ListOK(list)' /\ list'.head # Null
  BY RecordAssumption DEF ListOK, Linked
<1> QED
  BY <1>1, <1>2, <1>3, Stays DEF TakeInv, Asked, Rejected, ListOrNone

LEMMA ChooseStep ==
  ASSUME ListInv, Choose
  PROVE  [Next]_vars /\ ListInv'
<1> DEFINE b == Base(list, best.at)
<1>1. /\ pc = "search" /\ begin = Null /\ best.at # Null
      /\ need' = HeadSize(b, request)
      /\ IF IsAvail(list, best.at)
         THEN area' = best.at /\ UNCHANGED list
         ELSE /\ area' = Survivor(list, best.at)
              /\ list' = Freed(list, best.at)
      /\ pc' = "take" /\ request' = request
      /\ UNCHANGED vars
  BY DEF Choose
<1>2. /\ SearchInv /\ Settled(list) /\ ListOrNone(list) /\ Layout
      /\ request \in Requests /\ ~ Rejected(request)
      /\ FitsFree(request) = {}
  BY <1>1, SearchFacts DEF SearchInv
<1>3. /\ best.at \in InList(list) /\ ListOK(list)
      /\ b \in Candidates(request) /\ best.score = Score(b, request)
  <2>1. BestInv
    BY <1>2 DEF SearchInv
  <2>2. best.at \in InList(list) /\ b \in Candidates(request)
        /\ best.score = Score(b, request)
    BY <1>1, <2>1 DEF BestInv
  <2> QED
    BY <1>1, <2>2, SearchFacts
<1>4. b \in Cheapest(request)
  <2>1. PosOf(begin) = MemorySize
    BY <1>1 DEF PosOf
  <2>2. \A c \in Candidates(request) : c < MemorySize
    BY <1>2, AreaFacts DEF Candidates, Layout
  <2>3. \A c \in Candidates(request) : Score(b, request) <= Score(c, request)
    BY <1>2, <1>3, <2>1, <2>2 DEF SearchInv
  <2> QED
    BY <1>3, <2>3 DEF Cheapest
<1>5. /\ IsAvail(list, best.at) <=> IsFree(b)
      /\ EndOf(b) = Limit(list, best.at)
  BY <1>2, <1>3, ListArea
<1>6. /\ IsFree(b) => RoomAt(b, EndOf(b), HeadSize(b, request), request)
      /\ ~ IsFree(b) =>
           RoomAt(LeftEdge(b), RightEdge(b), HeadSize(b, request), request)
  BY <1>2, <1>4, RoomBegins
<1>7. CASE IsAvail(list, best.at)
  <2>1. Cleared(list, best.at, EndOf(b))
    BY <1>2, <1>3, <1>5, <1>7, FreeIsCleared
  <2>2. /\ ListOK(list') /\ Cleared(list', area', EndOf(b))
        /\ RoomAt(Base(list', area'), EndOf(b), need', request)
    BY <1>1, <1>3, <1>5, <1>6, <1>7, <2>1
  <2>3. TakeInv' /\ [Next]_vars /\ IInv' /\ ListOrNone(list)'
    BY <1>1, <1>2, <2>2, TakeBegins
  <2> QED
    BY <1>1, <2>3 DEF ListInv
<1>8. CASE ~ IsAvail(list, best.at)
  <2> DEFINE k == Freed(list, best.at)
             s == Survivor(list, best.at)
  <2>1. /\ ListOK(k) /\ Cleared(k, s, RightEdge(b))
        /\ Base(k, s) = LeftEdge(b)
    BY <1>2, <1>3, <1>8, KickFirst
  <2>2. list' = k /\ area' = s
    BY <1>1, <1>8
  <2> HIDE DEF k, s
  <2>3. /\ ListOK(list') /\ Cleared(list', area', RightEdge(b))
        /\ RoomAt(Base(list', area'), RightEdge(b), need', request)
    BY <1>1, <1>5, <1>6, <1>8, <2>1, <2>2
  <2>4. TakeInv' /\ [Next]_vars /\ IInv' /\ ListOrNone(list)'
    BY <1>1, <1>2, <2>3, TakeBegins
  <2> QED
    BY <1>1, <2>4 DEF ListInv
<1> QED
  BY <1>7, <1>8

LEMMA TakeFacts ==
  ASSUME ListInv, pc = "take"
  PROVE  /\ Layout /\ ListOK(list) /\ area \in InList(list)
         /\ request \in Requests /\ ~ Rejected(request)
         /\ \E hi : /\ Cleared(list, area, hi)
                    /\ RoomAt(Base(list, area), hi, need, request)
                    /\ Block(Base(list, area), hi)
                    /\ Size(list, area) = hi - Base(list, area)
                    /\ Limit(list, area) = hi
<1>1. Layout /\ TakeInv /\ ListOrNone(list)
  BY DEF ListInv, IInv
<1>2. PICK hi \in 0 .. MemorySize :
        Cleared(list, area, hi) /\ RoomAt(Base(list, area), hi, need, request)
  BY <1>1 DEF TakeInv
<1>3. area \in InList(list) /\ ListOK(list)
  BY <1>1, <1>2 DEF Cleared, ListOrNone
<1>4. /\ Block(Base(list, area), hi) /\ Size(list, area) = hi - Base(list, area)
      /\ Limit(list, area) = hi
  BY <1>1, <1>2, <1>3, ClearedFacts
<1> QED
  BY <1>1, <1>2, <1>3, <1>4 DEF TakeInv, Asked

\* What is to be kicked out is there, and Removable.
LEMMA NextToKick ==
  ASSUME ListInv, pc = "take", Size(list, area) < need,
         NEW hi, Cleared(list, area, hi),
         RoomAt(Base(list, area), hi, need, request)
  PROVE  /\ NextOf(list, area) # Null
         /\ State(list, NextOf(list, area)) = Removable
         /\ RoomAt(Base(list, area), RightEdge(hi), need, request)
<1> DEFINE lo == Base(list, area)
<1>1. /\ Layout /\ ListOK(list) /\ area \in InList(list)
      /\ request \in Requests /\ ~ Rejected(request)
  BY TakeFacts
<1>2. Block(lo, hi) /\ Size(list, area) = hi - lo /\ Limit(list, area) = hi
  BY <1>1, ClearedFacts
<1>3. /\ hi \in Used /\ areas[hi].state = Removable
      /\ RoomAt(lo, RightEdge(hi), need, request)
  BY <1>1, <1>2, RoomFacts
<1>4. NextOf(list, area) # Null
  <2>1. hi < MemorySize
    BY <1>1, <1>3, AreaFacts DEF Used, Layout
  <2>2. NextOf(list, area) = Null => Limit(list, area) = MemorySize
    BY <1>1 DEF ListOK, Linked
  <2> QED
    BY <1>2, <2>1, <2>2, PoolAssumption
<1>5. list.node[NextOf(list, area)].area = areas[hi]
  BY <1>1, <1>4, KickNext
<1> QED
  BY <1>3, <1>4, <1>5 DEF State

LEMMA KickOutStep ==
  ASSUME ListInv, KickOut
  PROVE  [Next]_vars /\ ListInv'
<1> DEFINE k == Freed(list, NextOf(list, area))
<1>1. /\ pc = "take" /\ Size(list, area) < need
      /\ list' = k /\ pc' = pc /\ request' = request /\ area' = area
      /\ need' = need /\ UNCHANGED vars
  BY DEF KickOut, locals
<1>2. /\ Layout /\ ListOK(list)
      /\ request \in Requests /\ ~ Rejected(request)
  BY <1>1, TakeFacts
<1>3. PICK hi : /\ Cleared(list, area, hi)
                /\ RoomAt(Base(list, area), hi, need, request)
  BY <1>1, TakeFacts
<1>4. /\ NextOf(list, area) # Null
      /\ RoomAt(Base(list, area), RightEdge(hi), need, request)
  BY <1>1, <1>3, NextToKick
<1>5. /\ ListOK(k) /\ Cleared(k, area, RightEdge(hi))
      /\ Base(k, area) = Base(list, area)
  BY <1>2, <1>3, <1>4, KickNext
<1> HIDE DEF k
<1>6. /\ ListOK(list') /\ Cleared(list', area', RightEdge(hi))
      /\ RoomAt(Base(list', area'), RightEdge(hi), need', request)
  BY <1>1, <1>4, <1>5
<1>7. TakeInv' /\ [Next]_vars /\ IInv' /\ ListOrNone(list)'
  BY <1>1, <1>2, <1>6, TakeBegins
<1> QED
  BY <1>1, <1>7 DEF ListInv

LEMMA TakeStep ==
  ASSUME ListInv, Take
  PROVE  [Next]_vars /\ ListInv'
<1> DEFINE lo == Base(list, area)
<1>1. /\ pc = "take" /\ need <= Size(list, area)
      /\ IF need < Size(list, area)
         THEN \E new \in Records \ InList(list) :
                Return(Taken(Split(list, area, new), area, list.available))
         ELSE Return(Taken(list, area, list.available - 1))
      /\ offScreenCounter' = (offScreenCounter + 1) % CounterMod
  BY DEF Take
<1>2. /\ Layout /\ ListOK(list) /\ area \in InList(list)
      /\ request \in Requests /\ ~ Rejected(request)
  BY <1>1, TakeFacts
<1>3. PICK hi : /\ Cleared(list, area, hi) /\ Block(lo, hi)
                /\ RoomAt(lo, hi, need, request)
                /\ Size(list, area) = hi - lo
  BY <1>1, TakeFacts
<1>4. need \in Nat \ {0} /\ <<lo, hi, need>> \in Regions(request)
  BY <1>1, <1>2, <1>3, RoomFacts
<1>5. list.available = Recount(lo, hi)
  BY <1>3 DEF Cleared
<1>6. Size(list, area) \in Nat
  BY <1>2, NodeFacts
<1>7. CASE need < Size(list, area)
  <2>1. PICK new \in Records \ InList(list) :
          Return(Taken(Split(list, area, new), area, list.available))
    BY <1>1, <1>7
  <2> DEFINE k == Taken(Split(list, area, new), area, list.available)
  <2>2. /\ ListOK(k) /\ AreasOf(k) = Place(lo, hi, need, request)
        /\ k.available = list.available
    BY <1>2, <1>3, <1>4, <1>7, TakePart
  <2>3. Return(k)
    BY <2>1
  <2> HIDE DEF k, lo
  <2>4. AllocIn(lo, hi, need, request)
    BY <1>1, <1>3, <1>5, <1>7, <2>2, <2>3 DEF AllocIn, Return
  <2>5. Next /\ ListOrNone(k)
    <3>1. OffscreenAlloc(request)
      BY <1>4, <2>4 DEF OffscreenAlloc
    <3>2. k.head # Null
      BY <2>2, RecordAssumption DEF ListOK, Linked
    <3> QED
      BY <1>2, <2>2, <3>1, <3>2 DEF Next, ListOrNone
  <2> QED
    BY <2>3, <2>5, Ends
<1>8. CASE ~ need < Size(list, area)
  <2> DEFINE k == Taken(list, area, list.available - 1)
  <2>1. Return(k)
    BY <1>1, <1>8
  <2>2. need = Size(list, area)
    BY <1>1, <1>4, <1>6, <1>8
  <2>3. /\ ListOK(k) /\ AreasOf(k) = Place(lo, hi, need, request)
        /\ k.available = list.available - 1
    BY <1>2, <1>3, <2>2, TakeAll
  <2> HIDE DEF k, lo
  <2>4. ~ need < hi - lo
    BY <1>3, <1>8
  <2>5. AllocIn(lo, hi, need, request)
    BY <1>1, <1>5, <2>1, <2>3, <2>4 DEF AllocIn, Return
  <2>6. Next /\ ListOrNone(k)
    <3>1. OffscreenAlloc(request)
      BY <1>4, <2>5 DEF OffscreenAlloc
    <3>2. k.head # Null
      BY <2>3, RecordAssumption DEF ListOK, Linked
    <3> QED
      BY <1>2, <2>3, <3>1, <3>2 DEF Next, ListOrNone
  <2> QED
    BY <2>1, <2>6, Ends
<1> QED
  BY <1>7, <1>8

LEMMA TakeNoMemoryStep ==
  ASSUME ListInv, TakeNoMemory
  PROVE  [Next]_vars /\ ListInv'
<1> DEFINE lo == Base(list, area)
<1>1. /\ pc = "take" /\ need < Size(list, area) /\ Return(list)
      /\ UNCHANGED offScreenCounter
  BY DEF TakeNoMemory
<1>2. /\ Layout /\ ListOK(list) /\ area \in InList(list) /\ ListOrNone(list)
      /\ request \in Requests /\ ~ Rejected(request)
  BY <1>1, TakeFacts DEF ListInv
<1>3. PICK hi : /\ Cleared(list, area, hi) /\ Block(lo, hi)
                /\ RoomAt(lo, hi, need, request)
                /\ Size(list, area) = hi - lo
  BY <1>1, TakeFacts
<1>4. Size(list, area) \in Nat /\ need \in Nat
  BY <1>2, <1>3, NodeFacts, RoomFacts
<1>5. <<lo, hi, need>> \in Regions(request) /\ need < hi - lo
  BY <1>1, <1>2, <1>3, <1>4, RoomFacts
<1>6. list.available = Recount(lo, hi) /\ AreasOf(list) = Coalesce(lo, hi)
  BY <1>3 DEF Cleared
<1> HIDE DEF lo
<1>7. AllocNoMemory(request)
  BY <1>1, <1>5, <1>6 DEF AllocNoMemory, Return
<1>8. Next
  BY <1>2, <1>7 DEF Next
<1> QED
  BY <1>1, <1>2, <1>8, Ends

-----------------------------------------------------------------------------
(* Swapping out. *)

LEMMA SwapFacts ==
  ASSUME ListInv, pc = "swap"
  PROVE  /\ Layout /\ ListOK(list) /\ list.head \in InList(list)
         /\ Base(list, list.head) = OffScreenBase
         /\ \/ Settled(list) /\ ~ IsAvail(list, list.head)
            \/ \E hi : /\ Cleared(list, list.head, hi)
                       /\ IsAvail(list, list.head)
                       /\ Limit(list, list.head) = hi
<1>1. Layout /\ SwapInv /\ ListOrNone(list)
  BY DEF ListInv, IInv
<1>2. /\ ListOK(list) /\ list.head \in InList(list)
      /\ Base(list, list.head) = OffScreenBase
  BY <1>1 DEF SwapInv, ListOrNone, ListOK, Linked
<1>3. \A hi : Cleared(list, list.head, hi) =>
        IsAvail(list, list.head) /\ Limit(list, list.head) = hi
  BY <1>1, <1>2, ClearedFacts
<1> QED
  BY <1>1, <1>2, <1>3 DEF SwapInv

\* What is kicked out is in use.
LEMMA VictimUsed ==
  ASSUME ListInv, pc = "swap", Victim # Null
  PROVE  Victim \in InList(list) /\ ~ IsAvail(list, Victim)
<1>1. CASE ~ IsAvail(list, list.head)
  BY <1>1, SwapFacts DEF Victim
<1>2. CASE IsAvail(list, list.head)
  <2>1. PICK hi : Cleared(list, list.head, hi)
    BY <1>2, SwapFacts
  <2>2. Victim = NextOf(list, list.head)
    BY <1>2 DEF Victim
  <2>3. /\ Victim \in InList(list) /\ hi \in Used
        /\ list.node[Victim].area = areas[hi]
    BY <2>1, <2>2, SwapFacts, KickNext
  <2> QED
    BY <2>3 DEF Used, IsUsed, IsAvail, State
<1> QED
  BY <1>1, <1>2

LEMMA SwapKickOutStep ==
  ASSUME ListInv, SwapKickOut
  PROVE  [Next]_vars /\ ListInv'
<1> DEFINE k == Freed(list, Victim)
<1>1. /\ pc = "swap" /\ Victim # Null /\ list' = k /\ pc' = pc
      /\ UNCHANGED vars
  BY DEF SwapKickOut
<1>2. /\ Layout /\ ListOK(list) /\ list.head \in InList(list)
      /\ list.head # Null
  BY <1>1, SwapFacts, RecordAssumption DEF ListOK
<1>3. ListOK(k) /\ k.head = list.head /\ \E hi : Cleared(k, k.head, hi)
  <2>1. CASE ~ IsAvail(list, list.head)
    <3>1. Victim = list.head /\ Settled(list)
      BY <1>1, <2>1, SwapFacts DEF Victim
    <3>2. Survivor(list, Victim) = list.head
      BY <3>1 DEF Survivor, MergesBack, Before
    <3> QED
      BY <1>2, <2>1, <3>1, <3>2, KickFirst
  <2>2. CASE IsAvail(list, list.head)
    <3>1. PICK hi : Cleared(list, list.head, hi)
      BY <1>1, <2>2, SwapFacts
    <3>2. Victim = NextOf(list, list.head)
      BY <2>2 DEF Victim
    <3> QED
      BY <1>1, <1>2, <3>1, <3>2, KickNext
  <2> QED
    BY <2>1, <2>2
<1>4. PICK hi \in 0 .. MemorySize : Cleared(k, k.head, hi)
  BY <1>2, <1>3, ClearedEnds
<1> HIDE DEF k
<1>5. Cleared(list, list.head, hi)'
  BY <1>1, <1>4, Frame
<1>6. SwapInv' /\ ListOrNone(list)'
  BY <1>1, <1>2, <1>3, <1>4, <1>5 DEF SwapInv, ListOrNone
<1>7. [Next]_vars /\ IInv'
  BY <1>1, Stays
<1> QED
  BY <1>1, <1>6, <1>7 DEF ListInv

LEMMA SwapFiniStep ==
  ASSUME ListInv, SwapFini
  PROVE  [Next]_vars /\ ListInv'
<1> DEFINE k == EmptyList(list.available)
<1>1. pc = "swap" /\ Victim = Null /\ Return(k) /\ UNCHANGED offScreenCounter
  BY DEF SwapFini
<1>2. /\ Layout /\ ListOK(list) /\ list.head \in InList(list)
      /\ list.head # Null /\ list.available \in Int
      /\ Base(list, list.head) = OffScreenBase
  BY <1>1, SwapFacts, RecordAssumption DEF ListOK
<1>3. IsAvail(list, list.head) /\ NextOf(list, list.head) = Null
  BY <1>1, <1>2 DEF Victim
<1>4. Cleared(list, list.head, MemorySize)
  <2>1. Limit(list, list.head) = MemorySize
    BY <1>2, <1>3 DEF ListOK, Linked
  <2> QED
    BY <1>1, <1>3, <2>1, SwapFacts
<1>5. list.available = Recount(OffScreenBase, MemorySize)
  BY <1>2, <1>4 DEF Cleared
<1>6. areas # NoAreas
  BY <1>2, <1>4, ClearedFacts, NonEmpty DEF Layout
<1>7. /\ ListOrNone(k) /\ AreasOf(k) = NoAreas
      /\ k.available = list.available
  BY <1>2, EmptyFacts
<1> HIDE DEF k
<1>8. OffscreenSwapOut
  BY <1>1, <1>5, <1>6, <1>7 DEF OffscreenSwapOut, Return
<1>9. Next
  BY <1>8 DEF Next
<1> QED
  BY <1>1, <1>7, <1>9, Ends

-----------------------------------------------------------------------------
(* The invariant is inductive. *)

LEMMA ListStutter ==
  ASSUME ListInv, UNCHANGED listVars
  PROVE  [Next]_vars /\ ListInv'
<1>1. /\ UNCHANGED vars /\ UNCHANGED list /\ pc' = pc /\ request' = request
      /\ area' = area /\ need' = need /\ begin' = begin /\ scan' = scan
      /\ best' = best
  BY DEF listVars, locals
<1>2. [Next]_vars /\ IInv' /\ ListOrNone(list)'
  BY <1>1, Stays, ListFrame DEF ListInv
<1>3. ASSUME pc = "idle" PROVE Settled(list)' /\ Idle'
  BY <1>1, <1>3, Frame
  DEF ListInv, Idle, NoRequest, NoScan, NoBest, NoScore
<1>4. ASSUME Asked PROVE Asked'
  BY <1>1, <1>4 DEF Asked, Rejected
<1>5. ASSUME pc = "fit" PROVE FitInv' /\ (best = NoBest)'
  <2>1. FitInv /\ best = NoBest
    BY <1>5 DEF ListInv
  <2>2. /\ Settled(list)' /\ (area \in InListOrNull)'
        /\ FitsFree(request)' = FitsFree(request) /\ PosOf(area)' = PosOf(area)
    BY <1>1, <2>1, Frame, ListFrame DEF FitInv
  <2> QED
    BY <1>1, <1>4, <2>1, <2>2 DEF FitInv, NoBest, NoScore
<1>6. ASSUME pc \in {"search", "scan"} PROVE SearchInv'
  <2>1. SearchInv
    BY <1>6, SearchFacts
  <2>2. BestInv'
    BY <1>1, <2>1, BestKept DEF SearchInv
  <2> QED
    BY <1>1, <2>1, <2>2, SearchGoesOn DEF SearchInv
<1>7. ASSUME pc = "scan" PROVE ScanInv'
  <2>1. ScanInv
    BY <1>7, ScanFacts
  <2>2. /\ Base(list, begin)' = Base(list, begin)
        /\ PosOf(scan.at)' = PosOf(scan.at)
        /\ InListOrNull' = InListOrNull /\ InList(list)' = InList(list)
        /\ HeadSize(Base(list, begin), request)'
             = HeadSize(Base(list, begin), request)
        /\ Total' = Total /\ areas' = areas
        /\ \A c : Age(c)' = Age(c)
    BY <1>1, Frame, ListFrame DEF vars
  <2>3. Scanned' = Scanned
    BY <2>2 DEF Scanned
  <2> QED
    BY <1>1, <2>1, <2>2, <2>3 DEF ScanInv, Infinite
<1>8. ASSUME pc = "take" PROVE TakeInv'
  <2>1. /\ ListOK(list) /\ request \in Requests /\ ~ Rejected(request)
    BY <1>8, TakeFacts
  <2>2. PICK hi : /\ Cleared(list, area, hi)
                  /\ RoomAt(Base(list, area), hi, need, request)
    BY <1>8, TakeFacts
  <2>3. /\ ListOK(list') /\ Cleared(list', area', hi)
        /\ RoomAt(Base(list', area'), hi, need', request)
    BY <1>1, <2>1, <2>2
  <2> QED
    BY <1>1, <2>1, <2>3, TakeBegins
<1>9. ASSUME pc = "swap" PROVE SwapInv'
  <2>1. SwapInv
    BY <1>9 DEF ListInv
  <2>2. Settled(list)' = Settled(list)
        /\ \A hi : Cleared(list, list.head, hi)' = Cleared(list, list.head, hi)
    BY <1>1, Frame
  <2> QED
    BY <1>1, <2>1, <2>2 DEF SwapInv
<1> QED
  BY <1>1, <1>2, <1>3, <1>5, <1>6, <1>7, <1>8, <1>9 DEF ListInv

LEMMA ListStarts ==
  ASSUME ListSpecInit
  PROVE  Init /\ ListInv
<1>1. Init /\ list = EmptyList(0) /\ Idle
  BY DEF ListSpecInit
<1>2. IInv
  BY <1>1, InductiveInit
<1>3. ListOrNone(list) /\ AreasOf(list) = NoAreas /\ list.available = 0
  BY <1>1, EmptyFacts
<1>4. Settled(list)
  BY <1>1, <1>3 DEF Settled, Init
<1>5. pc = "idle"
  BY <1>1 DEF Idle
<1> QED
  BY <1>1, <1>2, <1>3, <1>4, <1>5 DEF ListInv

LEMMA ListStep == ListInv /\ [ListNext]_listVars => [Next]_vars /\ ListInv'
<1> SUFFICES ASSUME ListInv, [ListNext]_listVars
             PROVE  [Next]_vars /\ ListInv'
  OBVIOUS
<1>1. CASE Call
  BY <1>1, CallInitStep, CallAllocStep, CallFreeStep, CallFiniStep, CallSwapOutStep
  DEF Call
<1>2. CASE AllocNext
  BY <1>2, FitNextStep, FitFoundStep, FitNoneStep, SkipLockedStep, ScanFromStep,
     ScanFailsStep, ScanNextStep, ScanEnoughStep, NoSpaceStep, ChooseStep,
     KickOutStep, TakeStep, TakeNoMemoryStep
  DEF AllocNext
<1>3. CASE SwapNext
  BY <1>3, SwapKickOutStep, SwapFiniStep DEF SwapNext
<1>4. CASE UNCHANGED listVars
  BY <1>4, ListStutter
<1> QED
  BY <1>1, <1>2, <1>3, <1>4 DEF ListNext

-----------------------------------------------------------------------------
(* What holds of every behaviour of the list. *)

\* The invariant of the list with its loops: between two iterations the list
\* hangs together, and stands for the areas with what has been kicked out so
\* far merged; the loops have passed over nothing that they were to find.
THEOREM ListInvariant == ListSpec => []ListInv
<1>1. ListSpecInit => ListInv
  BY ListStarts
<1>2. ListInv /\ [ListNext]_listVars => ListInv'
  BY ListStep
<1> QED
  BY <1>1, <1>2, PTL DEF ListSpec

\* The linked list with its searches and merges is the manager of
\* OffscreenAreas: each call of imx_exa_offscreen.c ends with what one action
\* of that module allows, and the loops in between change no area.
THEOREM ListImplementsAreas == ListSpec => ImplementsAreas
<1>1. ListSpecInit => ListInv /\ Init
  BY ListStarts
<1>2. ListInv /\ [ListNext]_listVars => ListInv' /\ [Next]_vars
  BY ListStep
<1> QED
  BY <1>1, <1>2, PTL DEF ListSpec, ImplementsAreas, Spec

\* The records form one list through all of them, in the order of the
\* addresses, after every iteration of every loop that rewrites links.
THEOREM LinksHold == ListSpec => []WellLinked
<1>1. ListInv => WellLinked
  BY DEF ListInv, ListOrNone, ListOK, WellLinked
<1> QED
  BY <1>1, ListInvariant, PTL

\* The loops of OffscreenAlloc find a region exactly when there is one: the
\* loop over begin, which resumes after a Locked area that a scan has met,
\* skips no candidate.
THEOREM SearchFindsAll == ListSpec => []SearchComplete
<1>1. ListInv => SearchComplete
  <2> SUFFICES ASSUME ListInv PROVE SearchComplete
    OBVIOUS
  <2>1. ASSUME pc = "search", begin = Null
        PROVE  best.at # Null <=> Regions(request) # {}
    <3>1. /\ SearchInv /\ Layout /\ request \in Requests /\ ~ Rejected(request)
          /\ FitsFree(request) = {}
      BY <2>1, SearchFacts DEF SearchInv
    <3>2. best.at # Null <=> Candidates(request) # {}
      <4>1. best.at # Null => Candidates(request) # {}
        BY <3>1 DEF SearchInv, BestInv
      <4>2. ASSUME NEW c \in Candidates(request) PROVE best.at # Null
        <5>1. c < MemorySize
          BY <3>1, AreaFacts DEF Candidates, Layout
        <5>2. c < PosOf(begin)
          BY <2>1, <5>1 DEF PosOf
        <5> QED
          BY <3>1, <5>2 DEF SearchInv
      <4> QED
        BY <4>1, <4>2
    <3>3. Regions(request) = Evicting(request)
      BY <3>1 DEF Regions
    <3>4. Candidates(request) # {} => Evicting(request) # {}
      BY <3>1, CheapestFinds, EvictingFinds DEF Layout
    <3>5. Evicting(request) # {} => Candidates(request) # {}
      BY DEF Evicting, Cheapest
    <3> QED
      BY <3>2, <3>3, <3>4, <3>5
  <2>2. ASSUME pc = "take" PROVE Regions(request) # {}
    BY <2>2, TakeFacts, RoomFacts
  <2> QED
    BY <2>1, <2>2 DEF SearchComplete
<1> QED
  BY <1>1, ListInvariant, PTL

\* The assertions of the eviction loops never fail: there always is a next
\* area to kick out, it is Removable, and swapping out kicks out no free one.
THEOREM AssertionsHold == ListSpec => []AssertsHold
<1>1. ListInv => AssertsHold
  <2> SUFFICES ASSUME ListInv PROVE AssertsHold
    OBVIOUS
  <2>1. ASSUME pc = "take", Size(list, area) < need
        PROVE  /\ NextOf(list, area) # Null
               /\ State(list, NextOf(list, area)) = Removable
    BY <2>1, TakeFacts, NextToKick
  <2>2. ASSUME pc = "swap", Victim # Null PROVE ~ IsAvail(list, Victim)
    BY <2>2, VictimUsed
  <2> QED
    BY <2>1, <2>2 DEF AssertsHold
<1> QED
  BY <1>1, ListInvariant, PTL

\* Hence the code as the driver calls it keeps the promise of OffscreenPool,
\* and what holds of the areas holds of the list.
THEOREM ListImplementsPool ==
  ASSUME DriverUse
  PROVE  ListSpec => ImplementsPool
<1>1. ListSpec => Spec
  BY ListImplementsAreas DEF ImplementsAreas
<1> QED
  BY <1>1, ManagerImplementsPool
=============================================================================
