----------------------------- MODULE OffscreenList -----------------------------
(***************************************************************************)
(* The offscreen memory manager once more, with its list as the code keeps *)
(* it: records linked by next and prev, searched, cleared and merged by    *)
(* loops, of which each iteration is a step here.  The prev of the first   *)
(* record is the last one, and the next of the last is Null.               *)
(*                                                                         *)
(* The variables of OffscreenAreas are carried along: areas and            *)
(* numOffscreenAvailable change when a call returns, to what the list then *)
(* stands for.  OffscreenAreas is implemented if they change as that       *)
(* module allows.                                                          *)
(***************************************************************************)
EXTENDS OffscreenAreas

CONSTANTS
  Records,  \* memory that malloc may return for a record
  Null      \* no record

ASSUME RecordAssumption == Null \notin Records

VARIABLES
  list,     \* offScreenAreas, the records and the number of free ones
  pc,       \* the loop that the call in progress is in
  request,  \* what OffscreenAlloc was called with
  area,     \* its variable area
  need,     \* its real_size
  begin,    \* its variable begin
  scan,     \* its variables scan, avail and score
  best      \* its variables best and best_score

locals   == <<request, area, need, begin, scan, best>>
listVars == <<vars, list, pc, locals>>

Node(base, rec, next, prev) ==
  [base_offset |-> base, area |-> rec, next |-> next, prev |-> prev]

EmptyList(available) ==
  [head |-> Null, node |-> [n \in {} |-> 0], available |-> available]

InList(l)     == DOMAIN l.node
NextOf(l, n)  == l.node[n].next
PrevOf(l, n)  == l.node[n].prev
Base(l, n)    == l.node[n].base_offset
Size(l, n)    == l.node[n].area.size
Limit(l, n)   == Base(l, n) + Size(l, n)
State(l, n)   == l.node[n].area.state
IsAvail(l, n) == State(l, n) = Avail

\* What the list stands for.
RecordAt(l, b) == CHOOSE n \in InList(l) : Base(l, n) = b

AreasOf(l) ==
  [b \in {Base(l, n) : n \in InList(l)} |-> l.node[RecordAt(l, b)].area]

-----------------------------------------------------------------------------
(* Merging and freeing. *)

\* Mutation: the first record is not told of a new last one.
FollowerOnly(l, after) == after

\* The record whose prev is the area merged away.
PointsBack(l, after) == IF after # Null THEN after ELSE l.head

\* OffscreenMerge: the next area becomes part of this one.
Merge(l, n) ==
  LET next  == NextOf(l, n)
      after == NextOf(l, next)
      rec   == [l.node[n].area EXCEPT !.size = Size(l, n) + Size(l, next)]
  IN  [head      |-> l.head,
       node      |-> [m \in InList(l) \ {next} |->
                        Node(Base(l, m),
                             IF m = n THEN rec ELSE l.node[m].area,
                             IF m = n THEN after ELSE NextOf(l, m),
                             IF m = PointsBack(l, after) THEN n
                             ELSE PrevOf(l, m))],
       available |-> l.available - 1]

\* Mutation: the area before is never looked at.
BeforeNone(l, n) == Null

Before(l, n) == IF n = l.head THEN Null ELSE PrevOf(l, n)

MergesBack(l, n) == Before(l, n) # Null /\ IsAvail(l, Before(l, n))

\* Mutation: the area after is never looked at.
AheadNone(l, n) == FALSE

MergesAhead(l, n) == NextOf(l, n) # Null /\ IsAvail(l, NextOf(l, n))

\* Only the free neighbour before, if any, survives the record freed.
Survivor(l, n) == IF MergesBack(l, n) THEN Before(l, n) ELSE n

\* The area is marked free.
Marked(l, n) ==
  [head      |-> l.head,
   node      |-> [m \in InList(l) |->
                    IF m = n
                    THEN Node(Base(l, n),
                              [l.node[n].area EXCEPT !.state    = Avail,
                                                     !.last_use = 0,
                                                     !.want     = 0],
                              NextOf(l, n), PrevOf(l, n))
                    ELSE l.node[m]],
   available |-> l.available + 1]

\* Mutation: merges are not counted.
FreedUncounted(l, n) ==
  LET ahead == IF MergesAhead(l, n) THEN Merge(Marked(l, n), n)
               ELSE Marked(l, n)
      freed == IF MergesBack(l, n) THEN Merge(ahead, Before(l, n)) ELSE ahead
  IN  [freed EXCEPT !.available = l.available + 1]

\* OffscreenFree, and OffscreenKickOut but for its callback.
Freed(l, n) ==
  LET ahead == IF MergesAhead(l, n) THEN Merge(Marked(l, n), n)
               ELSE Marked(l, n)
  IN  IF MergesBack(l, n) THEN Merge(ahead, Before(l, n)) ELSE ahead

-----------------------------------------------------------------------------
(* The calls. *)

NoRequest == [size |-> 0, align |-> 0, locked |-> FALSE]
NoScan    == [at |-> Null, avail |-> 0, score |-> 0]

\* UINT_MAX, where best_score begins; the score of an area of age 0.
NoScore == ScoreScale * MemorySize + 1
NoBest  == [at |-> Null, score |-> NoScore]

Idle ==
  /\ pc = "idle"
  /\ request = NoRequest /\ area = Null /\ need = 0
  /\ begin = Null /\ scan = NoScan /\ best = NoBest

Finish ==
  /\ pc' = "idle"
  /\ request' = NoRequest /\ area' = Null /\ need' = 0
  /\ begin' = Null /\ scan' = NoScan /\ best' = NoBest

Return(l) ==
  /\ Finish
  /\ list' = l
  /\ areas' = AreasOf(l)
  /\ numOffscreenAvailable' = l.available

CallInit ==
  /\ pc = "idle"
  /\ list.head = Null
  /\ \E n \in Records :
       Return([head      |-> n,
               node      |-> [m \in {n} |->
                 Node(OffScreenBase,
                      Hole(OffScreenBase, MemorySize, OffScreenBase, 0),
                      Null, n)],
               available |-> 1])
  /\ offScreenCounter' = 1

CallFree(n) ==
  /\ pc = "idle"
  /\ ~ IsAvail(list, n)
  /\ Return(Freed(list, n))
  /\ UNCHANGED offScreenCounter

CallFini ==
  /\ pc = "idle"
  /\ list.head # Null
  /\ Return(EmptyList(list.available))
  /\ UNCHANGED offScreenCounter

\* Requests that cannot fit are refused at once.
CallAlloc(r) ==
  /\ pc = "idle"
  /\ ~ Rejected(r)
  /\ pc' = "fit"
  /\ request' = r
  /\ area' = list.head
  /\ UNCHANGED <<vars, list, need, begin, scan, best>>

CallSwapOut ==
  /\ pc = "idle"
  /\ list.head # Null
  /\ pc' = "swap"
  /\ UNCHANGED <<vars, list, locals>>

-----------------------------------------------------------------------------
(* OffscreenAlloc: find a free space that'll fit. *)

TailNeed(l, n, r) == r.size + CRem(Limit(l, n) - r.size, AlignOf(r))

Fits(n) ==
  IsAvail(list, n) /\ TailNeed(list, n, request) <= Size(list, n)

FitNext ==
  /\ pc = "fit" /\ area # Null
  /\ ~ Fits(area)
  /\ area' = NextOf(list, area)
  /\ UNCHANGED <<vars, list, pc, request, need, begin, scan, best>>

FitFound ==
  /\ pc = "fit" /\ area # Null
  /\ Fits(area)
  /\ need' = TailNeed(list, area, request)
  /\ pc' = "take"
  /\ UNCHANGED <<vars, list, request, area, begin, scan, best>>

FitNone ==
  /\ pc = "fit" /\ area = Null
  /\ begin' = list.head
  /\ pc' = "search"
  /\ UNCHANGED <<vars, list, request, area, need, scan, best>>

-----------------------------------------------------------------------------
(* OffscreenAlloc: locate a region which can hold the desired object. *)

AgeOf(l, n) == (offScreenCounter - l.node[n].area.last_use) % CounterMod

AreaScore(l, n) ==
  IF AgeOf(l, n) = 0 THEN NoScore
  ELSE Size(l, n) * (ScoreScale \div AgeOf(l, n))

SkipLocked ==
  /\ pc = "search" /\ begin # Null
  /\ State(list, begin) = Locked
  /\ begin' = NextOf(list, begin)
  /\ UNCHANGED <<vars, list, pc, request, area, need, scan, best>>

ScanFrom ==
  /\ pc = "search" /\ begin # Null
  /\ State(list, begin) # Locked
  /\ need' = HeadSize(Base(list, begin), request)
  /\ scan' = [at |-> begin, avail |-> 0, score |-> 0]
  /\ pc' = "scan"
  /\ UNCHANGED <<vars, list, request, area, begin, best>>

CanScan == scan.at # Null /\ State(list, scan.at) # Locked

\* Mutation: every scan moves begin to where it ended.
ResumeAlways(enough) == IF scan.at = Null THEN begin ELSE scan.at

\* The area after which the loop over begin goes on: a Locked area that the
\* scan met, or where it began.
Resume(enough) == IF scan.at = Null \/ enough THEN begin ELSE scan.at

ScanFails ==
  /\ pc = "scan"
  /\ ~ CanScan
  /\ begin' = NextOf(list, Resume(FALSE))
  /\ scan' = NoScan
  /\ pc' = "search"
  /\ UNCHANGED <<vars, list, request, area, need, best>>

AvailNow == scan.avail + Size(list, scan.at)
ScoreNow == scan.score + AreaScore(list, scan.at)

ScanNext ==
  /\ pc = "scan"
  /\ CanScan
  /\ AvailNow < need
  /\ scan' = [at |-> NextOf(list, scan.at), avail |-> AvailNow,
              score |-> ScoreNow]
  /\ UNCHANGED <<vars, list, pc, request, area, need, begin, best>>

\* Mutation: the last of equally good candidates wins, or one beyond all bounds.
BetterOrEqual(score) == score <= best.score

Better(score) == score < best.score

ScanEnough ==
  /\ pc = "scan"
  /\ CanScan
  /\ need <= AvailNow
  /\ best' = IF Better(ScoreNow) THEN [at |-> begin, score |-> ScoreNow]
             ELSE best
  /\ begin' = NextOf(list, Resume(TRUE))
  /\ scan' = NoScan
  /\ pc' = "search"
  /\ UNCHANGED <<vars, list, request, area, need>>

\* The call ends without an area.
NoSpace ==
  /\ pc = "search" /\ begin = Null
  /\ best.at = Null
  /\ Finish
  /\ UNCHANGED <<vars, list>>

\* Kick out the first area if in use.
Choose ==
  /\ pc = "search" /\ begin = Null
  /\ best.at # Null
  /\ need' = HeadSize(Base(list, best.at), request)
  /\ IF IsAvail(list, best.at)
     THEN area' = best.at /\ UNCHANGED list
     ELSE /\ area' = Survivor(list, best.at)
          /\ list' = Freed(list, best.at)
  /\ best' = NoBest
  /\ pc' = "take"
  /\ UNCHANGED <<vars, request, begin, scan>>

\* Merge the other needed areas together.
KickOut ==
  /\ pc = "take"
  /\ Size(list, area) < need
  /\ list' = Freed(list, NextOf(list, area))
  /\ UNCHANGED <<vars, pc, locals>>

-----------------------------------------------------------------------------
(* OffscreenAlloc: what happens to the area chosen. *)

\* Mutation: the loss to alignment is left over too.
LeftOverUnaligned(l, n) == Size(l, n) - request.size

LeftOver(l, n) == Size(l, n) - need

\* The left over space becomes a record before n; n keeps the last bytes.
Split(l, n, new) ==
  LET base  == Base(l, n)
      left  == LeftOver(l, n)
      prev  == PrevOf(l, n)
      first == NextOf(l, prev) = Null
  IN  [head      |-> IF first THEN new ELSE l.head,
       node      |-> [m \in InList(l) \cup {new} |->
         IF m = new THEN Node(base, Hole(base, base + left, base, 0), n, prev)
         ELSE IF m = n
         THEN Node(base + left, [l.node[n].area EXCEPT !.size = need],
                   NextOf(l, n), new)
         ELSE Node(Base(l, m), l.node[m].area,
                   IF m = prev /\ ~first THEN new ELSE NextOf(l, m),
                   PrevOf(l, m))],
       available |-> l.available]

Allocated(l, n) ==
  [size     |-> Size(l, n),
   state    |-> IF request.locked THEN Locked ELSE Removable,
   offset   |-> RoundUp(Base(l, n), AlignOf(request)),
   align    |-> AlignOf(request),
   last_use |-> offScreenCounter,
   want     |-> request.size]

\* The area is marked as in use, and counted so.
Taken(l, n, available) ==
  [head      |-> l.head,
   node      |-> [m \in InList(l) |->
     IF m = n
     THEN Node(Base(l, n), Allocated(l, n), NextOf(l, n), PrevOf(l, n))
     ELSE l.node[m]],
   available |-> available]

Take ==
  /\ pc = "take"
  /\ need <= Size(list, area)
  /\ IF need < Size(list, area)
     THEN \E new \in Records \ InList(list) :
            Return(Taken(Split(list, area, new), area, list.available))
     ELSE Return(Taken(list, area, list.available - 1))
  /\ offScreenCounter' = (offScreenCounter + 1) % CounterMod

\* malloc fails for the record of the left over space.
TakeNoMemory ==
  /\ pc = "take"
  /\ need < Size(list, area)
  /\ Return(list)
  /\ UNCHANGED offScreenCounter

-----------------------------------------------------------------------------
(* OffscreenSwapOut: until a single free area spans the space. *)

Victim ==
  IF IsAvail(list, list.head) THEN NextOf(list, list.head) ELSE list.head

SwapKickOut ==
  /\ pc = "swap"
  /\ Victim # Null
  /\ list' = Freed(list, Victim)
  /\ UNCHANGED <<vars, pc, locals>>

SwapFini ==
  /\ pc = "swap"
  /\ Victim = Null
  /\ Return(EmptyList(list.available))
  /\ UNCHANGED offScreenCounter

-----------------------------------------------------------------------------
ListSpecInit == Init /\ list = EmptyList(0) /\ Idle

Call ==
  \/ CallInit                           \* also OffscreenSwapIn
  \/ \E r \in Requests : CallAlloc(r)
  \/ \E n \in InList(list) : CallFree(n)
  \/ CallFini
  \/ CallSwapOut

AllocNext ==
  \/ FitNext \/ FitFound \/ FitNone
  \/ SkipLocked \/ ScanFrom \/ ScanFails \/ ScanNext \/ ScanEnough
  \/ NoSpace \/ Choose \/ KickOut \/ Take \/ TakeNoMemory

SwapNext == SwapKickOut \/ SwapFini

ListNext == Call \/ AllocNext \/ SwapNext

ListSpec == ListSpecInit /\ [][ListNext]_listVars

-----------------------------------------------------------------------------
(***************************************************************************)
(* The links are those of one list through every record in the order of    *)
(* the addresses: prev leads back where next came from, from the first     *)
(* record to the last, and no record is lost.  OffscreenMerge and the      *)
(* split of OffscreenAlloc tell the first record from the others by this   *)
(* and by nothing else.                                                    *)
(***************************************************************************)
Linked(l) ==
  /\ l.head \in InList(l) /\ Base(l, l.head) = OffScreenBase
  /\ \A n \in InList(l) :
       /\ IF NextOf(l, n) = Null
          THEN Limit(l, n) = MemorySize /\ PrevOf(l, l.head) = n
          ELSE /\ NextOf(l, n) \in InList(l)
               /\ Base(l, NextOf(l, n)) = Limit(l, n)
               /\ PrevOf(l, NextOf(l, n)) = n
       /\ n # l.head => /\ PrevOf(l, n) \in InList(l)
                        /\ NextOf(l, PrevOf(l, n)) = n
  /\ \A m, n \in InList(l) :
       m # n => Limit(l, m) <= Base(l, n) \/ Limit(l, n) <= Base(l, m)

WellLinked == IF list.head = Null THEN InList(list) = {} ELSE Linked(list)

(***************************************************************************)
(* The search over the list finds an area whenever OffscreenAreas has a    *)
(* region for the request and at no other time; in particular the jump     *)
(* past a Locked area skips no candidate.                                  *)
(***************************************************************************)
SearchComplete ==
  /\ pc = "search" /\ begin = Null =>
       (best.at # Null <=> Regions(request) # {})
  /\ pc = "take" => Regions(request) # {}

(***************************************************************************)
(* The assertions in the loops: what is kicked out to make room is there   *)
(* and Removable, what is kicked out to swap out is in use.                *)
(***************************************************************************)
AssertsHold ==
  /\ pc = "take" /\ Size(list, area) < need =>
       /\ NextOf(list, area) # Null
       /\ State(list, NextOf(list, area)) = Removable
  /\ pc = "swap" /\ Victim # Null => ~ IsAvail(list, Victim)

(***************************************************************************)
(* The loops over the list do what OffscreenAreas says of the areas in     *)
(* address order: the region chosen, what is evicted for it, the merges    *)
(* and the count.                                                          *)
(***************************************************************************)
ImplementsAreas == Spec
=============================================================================
