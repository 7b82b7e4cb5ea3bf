--------------------------- MODULE OffscreenAreas ---------------------------
(***************************************************************************)
(* The offscreen memory manager of src/src/imx_exa_offscreen.c.            *)
(*                                                                         *)
(* The frame buffer memory above the visible screen, from OffScreenBase up *)
(* to MemorySize, is divided into areas that are free (Avail), in use and  *)
(* evictable (Removable) or in use and pinned (Locked).  The code keeps    *)
(* them in a doubly linked list ordered by address; here the list is the   *)
(* function areas from the base_offset of an area to the rest of its       *)
(* record, and the successor of an area is the one that starts where it    *)
(* ends.  OffscreenList models the links and shows that they implement     *)
(* this.                                                                   *)
(*                                                                         *)
(* Every entry point runs to completion on the X server's single dispatch  *)
(* thread, so each is one action.                                          *)
(***************************************************************************)
EXTENDS Integers, FiniteSets, FiniteSetsExt

CONSTANTS
  OffScreenBase,  \* exaDriverPtr->offScreenBase: bytes used by the screen
  MemorySize,     \* exaDriverPtr->memorySize: bytes of video memory
  Requests,       \* the [size, align, locked] arguments callers use
  CounterMod,     \* offScreenCounter is unsigned: it wraps here (2^32)
  ScoreScale      \* common multiple of all ages, to keep scores integral

Avail     == "ExaOffscreenAvail"
Removable == "ExaOffscreenRemovable"
Locked    == "ExaOffscreenLocked"
States    == {Avail, Removable, Locked}

ASSUME PoolAssumption ==
  /\ OffScreenBase \in Nat
  /\ MemorySize \in Nat
  /\ OffScreenBase < MemorySize

ASSUME RequestAssumption ==
  Requests \subseteq [size : Nat, align : Nat, locked : BOOLEAN]

ASSUME CounterAssumption ==
  /\ CounterMod \in Nat \ {0, 1}
  /\ ScoreScale \in Nat
  /\ \A age \in 1 .. CounterMod - 1 : ScoreScale % age = 0

VARIABLES
  areas,                 \* base_offset -> record; empty when offScreenAreas is NULL
  offScreenCounter,      \* allocation clock
  numOffscreenAvailable  \* number of free areas

vars == <<areas, offScreenCounter, numOffscreenAvailable>>

(***************************************************************************)
(* An area record without its links and its base_offset.  want is a        *)
(* history field: the size the caller asked for, which the code drops.     *)
(***************************************************************************)
Area == [size : Nat \ {0}, state : States, offset : Nat, align : Nat,
         last_use : 0 .. CounterMod - 1, want : Nat]

NoAreas == [b \in {} |-> 0]

EndOf(b)   == b + areas[b].size
IsFree(b)  == areas[b].state = Avail
IsUsed(b)  == areas[b].state # Avail
Used       == {b \in DOMAIN areas : IsUsed(b)}
FreeAreas  == {b \in DOMAIN areas : IsFree(b)}
FreeIn(lo, hi) == {b \in FreeAreas : lo <= b /\ b < hi}

-----------------------------------------------------------------------------
(* How much of an area a request takes, alignment loss included. *)

\* C's remainder has the sign of the dividend.
CRem(x, a) == IF x >= 0 THEN x % a ELSE 0 - ((0 - x) % a)

AlignOf(r) == IF r.align = 0 THEN 1 ELSE r.align

\* Mutation: the loss to alignment is forgotten.
TailSizeUnaligned(b, r) == r.size

\* The block is cut from the end of the area.
TailSize(b, r) == r.size + CRem(EndOf(b) - r.size, AlignOf(r))

\* The block is reckoned from the start of the area.
HeadSize(b, r) ==
  r.size + (IF b % AlignOf(r) # 0 THEN AlignOf(r) - (b % AlignOf(r)) ELSE 0)

\* Mutation: requests for nothing are let through.
RejectedTooBig(r) == r.size > MemorySize - OffScreenBase

Rejected(r) == r.size = 0 \/ r.size > MemorySize - OffScreenBase

-----------------------------------------------------------------------------
(* Choosing the region an allocation uses: <<lo, hi, n>> stands for the    *)
(* areas in lo .. hi-1 made into one free area of which the allocation     *)
(* takes the last n bytes.                                                 *)

FitsFree(r) ==
  {b \in FreeAreas : TailSize(b, r) <= areas[b].size}

FirstFit(r) ==
  {<<b, EndOf(b), TailSize(b, r)>> :
     b \in {c \in FitsFree(r) : \A d \in FitsFree(r) : c <= d}}

Age(b) == (offScreenCounter - areas[b].last_use) % CounterMod

\* Mutation: the area that the block only partly covers is not scanned.
SpanWhole(b, n) == {c \in DOMAIN areas : b <= c /\ EndOf(c) <= b + n}

\* The areas scanned from b until they add up to n bytes.
Span(b, n) == {c \in DOMAIN areas : b <= c /\ c < b + n}

\* Mutation: the last byte of the pool is never used.
CandidatesShort(r) ==
  {b \in DOMAIN areas :
     /\ b + HeadSize(b, r) < MemorySize
     /\ \A c \in Span(b, HeadSize(b, r)) :
          areas[c].state # Locked /\ Age(c) # 0}

\* An area of age 0 scores infinity, which is never below best_score.
Candidates(r) ==
  {b \in DOMAIN areas :
     /\ b + HeadSize(b, r) <= MemorySize
     /\ \A c \in Span(b, HeadSize(b, r)) :
          areas[c].state # Locked /\ Age(c) # 0}

Score(b, r) ==
  MapThenSumSet(LAMBDA c : areas[c].size * (ScoreScale \div Age(c)),
                Span(b, HeadSize(b, r)))

\* The code takes the first of equal scores, but compares rounded doubles,
\* so which of several exact minima wins is left open.
Cheapest(r) ==
  {b \in Candidates(r) :
     \A c \in Candidates(r) : Score(b, r) <= Score(c, r)}

\* Mutation: the successor is merged whatever its state.
RightEdgeAny(b) ==
  IF EndOf(b) \in DOMAIN areas THEN EndOf(EndOf(b)) ELSE EndOf(b)

\* Where a freed area starts and ends once it is merged with its neighbours.
LeftEdge(b) ==
  IF \E p \in FreeAreas : EndOf(p) = b
  THEN CHOOSE p \in FreeAreas : EndOf(p) = b
  ELSE b

RightEdge(b) ==
  IF EndOf(b) \in FreeAreas THEN EndOf(EndOf(b)) ELSE EndOf(b)

\* Kicking out b, then its successors one by one, stops at the first of
\* these boundaries: at least n bytes from lo, with no free area to absorb.
Stops(b, lo, n) ==
  {e \in {EndOf(c) : c \in {d \in DOMAIN areas : b <= d}} :
     n <= e - lo /\ e \notin FreeAreas}

Evicting(r) ==
  UNION {LET lo == IF IsFree(b) THEN b ELSE LeftEdge(b)
             n  == HeadSize(b, r)
         IN  {<<lo, hi, n>> : hi \in {e \in Stops(b, lo, n) :
                                        \A f \in Stops(b, lo, n) : e <= f}} :
         b \in Cheapest(r)}

Regions(r) ==
  IF Rejected(r) THEN {}
  ELSE IF FitsFree(r) # {} THEN FirstFit(r)
  ELSE Evicting(r)

-----------------------------------------------------------------------------
(* What happens to the areas. *)

Hole(lo, hi, offset, align) ==
  [size |-> hi - lo, state |-> Avail, offset |-> offset, align |-> align,
   last_use |-> 0, want |-> 0]

\* The areas in lo .. hi-1 merged into the one at lo, which keeps the
\* offset and align it had.
Coalesce(lo, hi) ==
  [b \in {c \in DOMAIN areas : c <= lo \/ hi <= c} |->
     IF b = lo
     THEN Hole(lo, hi, areas[lo].offset, areas[lo].align)
     ELSE areas[b]]

\* Mutation: a multiple is rounded up to the next one.
RoundUpPast(x, a) == (x + a) - ((x + a) % a)

RoundUp(x, a) == (x + a - 1) - ((x + a - 1) % a)

\* The last n bytes of lo .. hi-1 given to r, the rest left as a hole.
Place(lo, hi, n, r) ==
  [b \in {c \in DOMAIN areas : c < lo \/ hi <= c} \cup {lo, hi - n} |->
     IF b = hi - n
     THEN [size     |-> n,
           state    |-> IF r.locked THEN Locked ELSE Removable,
           offset   |-> RoundUp(hi - n, AlignOf(r)),
           align    |-> AlignOf(r),
           last_use |-> offScreenCounter,
           want     |-> r.size]
     ELSE IF b = lo THEN Hole(lo, hi - n, lo, 0)
     ELSE areas[b]]

\* One more free area for each area freed, one less for each merge.
Recount(lo, hi) == numOffscreenAvailable + 1 - Cardinality(FreeIn(lo, hi))

OffscreenInit ==
  /\ areas = NoAreas
  /\ areas' = [b \in {OffScreenBase} |-> Hole(OffScreenBase, MemorySize, OffScreenBase, 0)]
  /\ offScreenCounter' = 1
  /\ numOffscreenAvailable' = 1

AllocIn(lo, hi, n, r) ==
  /\ areas' = Place(lo, hi, n, r)
  /\ offScreenCounter' = (offScreenCounter + 1) % CounterMod
  /\ numOffscreenAvailable' =
       IF n < hi - lo THEN Recount(lo, hi) ELSE Recount(lo, hi) - 1

OffscreenAlloc(r) ==
  \E region \in Regions(r) : AllocIn(region[1], region[2], region[3], r)

\* malloc fails for the record of the left over space, after evictions.
AllocNoMemory(r) ==
  \E region \in Regions(r) :
    LET lo == region[1]
        hi == region[2]
    IN  /\ region[3] < hi - lo
        /\ areas' = Coalesce(lo, hi)
        /\ numOffscreenAvailable' = Recount(lo, hi)
        /\ UNCHANGED offScreenCounter

OffscreenFree(b) ==
  /\ areas' = Coalesce(LeftEdge(b), RightEdge(b))
  /\ numOffscreenAvailable' = Recount(LeftEdge(b), RightEdge(b))
  /\ UNCHANGED offScreenCounter

\* Frees the records; neither the counter nor the clock is reset.
OffscreenFini ==
  /\ areas # NoAreas
  /\ areas' = NoAreas
  /\ UNCHANGED <<offScreenCounter, numOffscreenAvailable>>

\* Kicks out every area in use, then does what OffscreenFini does.
OffscreenSwapOut ==
  /\ areas # NoAreas
  /\ areas' = NoAreas
  /\ numOffscreenAvailable' = Recount(OffScreenBase, MemorySize)
  /\ UNCHANGED offScreenCounter

Init ==
  /\ areas = NoAreas
  /\ offScreenCounter = 0
  /\ numOffscreenAvailable = 0

Next ==
  \/ OffscreenInit                      \* also OffscreenSwapIn
  \/ \E r \in Requests : OffscreenAlloc(r)
  \/ \E r \in Requests : AllocNoMemory(r)
  \/ \E b \in Used : OffscreenFree(b)
  \/ OffscreenFini
  \/ OffscreenSwapOut

Spec == Init /\ [][Next]_vars

-----------------------------------------------------------------------------
TypeOK ==
  /\ DOMAIN areas \subseteq OffScreenBase .. MemorySize - 1
  /\ areas \in [DOMAIN areas -> Area]
  /\ offScreenCounter \in 0 .. CounterMod - 1
  /\ numOffscreenAvailable \in Int

(***************************************************************************)
(* What OffscreenValidate asserts: the areas divide the pool, without gap  *)
(* or overlap, from OffScreenBase to MemorySize.                           *)
(***************************************************************************)
Tiling ==
  areas # NoAreas =>
    /\ OffScreenBase \in DOMAIN areas
    /\ \A b \in DOMAIN areas : EndOf(b) \in DOMAIN areas \cup {MemorySize}
    /\ \A c \in DOMAIN areas \ {OffScreenBase} :
         \E b \in DOMAIN areas : EndOf(b) = c
    /\ \A b, c \in DOMAIN areas : b < c => EndOf(b) <= c

(***************************************************************************)
(* Freeing merges eagerly, so no two free areas touch: first fit, which    *)
(* looks at one area at a time, never misses space that is there.          *)
(***************************************************************************)
NoAdjacentFree == \A b \in FreeAreas : EndOf(b) \notin FreeAreas

(***************************************************************************)
(* numOffscreenAvailable, kept up to date by increments in five places, is *)
(* the number of free areas whenever the manager is set up.                *)
(***************************************************************************)
FreeCounted ==
  areas # NoAreas => numOffscreenAvailable = Cardinality(FreeAreas)

(***************************************************************************)
(* What the caller of OffscreenAlloc relies on: the bytes it asked for, at *)
(* the alignment it asked for, lie inside the area it was given.           *)
(***************************************************************************)
Contained(b) ==
  /\ areas[b].offset % areas[b].align = 0
  /\ b <= areas[b].offset
  /\ areas[b].offset + areas[b].want <= EndOf(b)

AllocContained == \A b \in Used : Contained(b)

(***************************************************************************)
(* The other assertion of OffscreenValidate: the offset of every area, a   *)
(* merged one included, is inside the area.                                *)
(***************************************************************************)
OffsetInside ==
  \A b \in DOMAIN areas : b <= areas[b].offset /\ areas[b].offset < EndOf(b)

(***************************************************************************)
(* The assertion made while areas are kicked out to make room: no Locked   *)
(* area is ever in the region chosen, and the region holds the block.      *)
(***************************************************************************)
EvictsOnlyRemovable ==
  \A r \in Requests : \A region \in Regions(r) :
    /\ region[3] <= region[2] - region[1]
    /\ \A b \in DOMAIN areas :
         region[1] <= b /\ b < region[2] => areas[b].state # Locked

(***************************************************************************)
(* A request fails only when it has to: if some aligned range of its size  *)
(* holds no byte of a Locked area, a region is found.  The exception is an *)
(* area of age 0, whose score is a division by zero.                       *)
(***************************************************************************)
Room(r) ==
  \E o \in OffScreenBase .. MemorySize - r.size :
    /\ o % AlignOf(r) = 0
    /\ \A b \in Used : areas[b].state = Locked =>
                         EndOf(b) <= o \/ o + r.size <= b

NoSpuriousFailure ==
  \A r \in Requests :
    /\ areas # NoAreas
    /\ r.size # 0
    /\ Room(r)
    /\ \A b \in DOMAIN areas : Age(b) # 0
    => Regions(r) # {}

(***************************************************************************)
(* A Locked area is there, unmoved and with the same record, until its     *)
(* owner frees it or the manager is taken down: no allocation, successful  *)
(* or failing, touches it.                                                 *)
(***************************************************************************)
Pinned ==
  {<<b, areas[b]>> : b \in {c \in DOMAIN areas : areas[c].state = Locked}}

LockedKept ==
  [][(\E r \in Requests : OffscreenAlloc(r) \/ AllocNoMemory(r))
       => Pinned \subseteq Pinned']_vars
=============================================================================
