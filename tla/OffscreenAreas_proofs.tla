----------------------- MODULE OffscreenAreas_proofs ------------------------
(***************************************************************************)
(* Proofs about OffscreenAreas, for every pool and every set of requests.  *)
(***************************************************************************)
EXTENDS OffscreenRefinement, FiniteSetTheorems, TLAPS

-----------------------------------------------------------------------------
(* Division with remainder. *)

LEMMA DivMod ==
  ASSUME NEW y \in Int, NEW a \in Nat \ {0}
  PROVE  /\ y \div a \in Int
         /\ y % a \in 0 .. a - 1
         /\ y = a * (y \div a) + (y % a)
OBVIOUS

LEMMA ModRange ==
  ASSUME NEW y \in Int, NEW a \in Nat \ {0}
  PROVE  y % a \in 0 .. a - 1
OBVIOUS

LEMMA MultipleMod ==
  ASSUME NEW q \in Int, NEW a \in Nat \ {0}
  PROVE  (a * q) % a = 0
OBVIOUS

\* Rounding down gives a multiple.
LEMMA RoundDownMod ==
  ASSUME NEW y \in Int, NEW a \in Nat \ {0}
  PROVE  (y - (y % a)) % a = 0
<1> DEFINE q == y \div a
<1>1. q \in Int /\ y - (y % a) = a * q
  BY DivMod
<1> HIDE DEF q
<1> QED
  BY <1>1, MultipleMod

\* Rounding down does not pass a multiple.
LEMMA RoundDownMax ==
  ASSUME NEW y \in Nat, NEW u \in Nat, NEW a \in Nat \ {0}, u % a = 0, u <= y
  PROVE  u <= y - (y % a)
<1> DEFINE p == u \div a
           q == y \div a
<1>1. /\ p \in Int /\ u = a * p
      /\ q \in Int /\ y = a * q + (y % a)
      /\ y % a \in 0 .. a - 1
  BY DivMod
<1> HIDE DEF p, q
<1>2. p <= q
  <2>1. SUFFICES ASSUME q + 1 <= p PROVE FALSE
    BY <1>1
  <2>2. a * (q + 1) <= a * p
    BY <2>1, <1>1
  <2>3. a * (q + 1) = a * q + a
    BY <1>1
  <2> QED
    BY <1>1, <2>2, <2>3
<1>3. a * p <= a * q
  BY <1>1, <1>2
<1> QED
  BY <1>1, <1>3

\* What the code adds to reach the next multiple reaches one.
LEMMA RoundUpMod ==
  ASSUME NEW b \in Nat, NEW a \in Nat \ {0}, b % a # 0
  PROVE  (b + (a - (b % a))) % a = 0
<1> DEFINE q == b \div a
<1>1. q \in Int /\ b = a * q + (b % a) /\ b % a \in Nat
  BY DivMod
<1> HIDE DEF q
<1>2. b + (a - (b % a)) = a * (q + 1)
  <2>1. a * (q + 1) = a * q + a
    BY <1>1
  <2> QED
    BY <1>1, <2>1
<1> QED
  BY <1>1, <1>2, MultipleMod

\* RoundUp returns a multiple at or after x, less than a beyond it.
LEMMA RoundUpFacts ==
  ASSUME NEW x \in Nat, NEW a \in Nat \ {0}
  PROVE  /\ RoundUp(x, a) \in Nat
         /\ RoundUp(x, a) % a = 0
         /\ x <= RoundUp(x, a)
         /\ x % a = 0 => RoundUp(x, a) = x
<1>1. (x + a - 1) % a \in 0 .. a - 1
  BY ModRange
<1>2. RoundUp(x, a) % a = 0
  BY RoundDownMod DEF RoundUp
<1>3. x % a = 0 => (x + a - 1) % a = a - 1
  OBVIOUS
<1> QED
  BY <1>1, <1>2, <1>3 DEF RoundUp

-----------------------------------------------------------------------------
(* The inductive invariant and the blocks of areas the actions rewrite.    *)

Layout == TypeOK /\ Tiling /\ NoAdjacentFree

IInv == Layout /\ FreeCounted

(***************************************************************************)
(* lo .. hi-1 is a run of whole areas with no free neighbour: what a call  *)
(* of OffscreenFree or the search of OffscreenAlloc arrives at.            *)
(***************************************************************************)
Block(lo, hi) ==
  /\ lo \in DOMAIN areas
  /\ hi \in DOMAIN areas \cup {MemorySize}
  /\ lo < hi
  /\ hi \notin FreeAreas
  /\ \A p \in FreeAreas : EndOf(p) # lo

LEMMA AreaFacts ==
  ASSUME TypeOK, NEW b \in DOMAIN areas
  PROVE  /\ b \in Nat /\ OffScreenBase <= b /\ b < MemorySize
         /\ areas[b] \in Area
         /\ areas[b].size \in Nat \ {0}
         /\ EndOf(b) \in Nat
         /\ b < EndOf(b)
         /\ areas[b].state \in States
         /\ b \in FreeAreas <=> areas[b].state = Avail
         /\ b \in Used <=> b \notin FreeAreas
  BY PoolAssumption DEF TypeOK, Area, EndOf, FreeAreas, Used, IsFree, IsUsed

LEMMA NonEmpty ==
  ASSUME TypeOK, NEW b \in DOMAIN areas
  PROVE  areas # NoAreas
  BY DEF NoAreas

\* Freeing an area in use, or kicking it out, rewrites a block.
LEMMA FreedBlock ==
  ASSUME Layout, NEW b \in Used
  PROVE  /\ Block(LeftEdge(b), RightEdge(b))
         /\ LeftEdge(b) <= b /\ EndOf(b) <= RightEdge(b)
         /\ \A c \in DOMAIN areas :
              LeftEdge(b) <= c /\ c < RightEdge(b) => c = b \/ c \in FreeAreas
<1>1. b \in DOMAIN areas /\ b \notin FreeAreas
  BY AreaFacts DEF Layout, Used
<1>2. Tiling /\ TypeOK /\ NoAdjacentFree /\ areas # NoAreas
  BY <1>1, NonEmpty DEF Layout
<1>3. /\ RightEdge(b) \in DOMAIN areas \cup {MemorySize}
      /\ RightEdge(b) \notin FreeAreas
      /\ EndOf(b) <= RightEdge(b)
      /\ \A c \in DOMAIN areas :
           b <= c /\ c < RightEdge(b) => c = b \/ c \in FreeAreas
  <2>1. \A c \in DOMAIN areas :
          /\ c \in Nat /\ EndOf(c) \in Nat /\ c < EndOf(c)
          /\ EndOf(c) \in DOMAIN areas \cup {MemorySize}
          /\ \A d \in DOMAIN areas : c < d => EndOf(c) <= d
    BY <1>2, AreaFacts DEF Tiling
  <2>2. FreeAreas \subseteq DOMAIN areas /\ MemorySize \notin DOMAIN areas
    BY <1>2, AreaFacts DEF FreeAreas
  <2>3. CASE EndOf(b) \in FreeAreas
    <3>1. RightEdge(b) = EndOf(EndOf(b))
      BY <2>3 DEF RightEdge
    <3> QED
      BY <1>1, <1>2, <2>1, <2>2, <2>3, <3>1 DEF NoAdjacentFree
  <2>4. CASE EndOf(b) \notin FreeAreas
    <3>1. RightEdge(b) = EndOf(b)
      BY <2>4 DEF RightEdge
    <3> QED
      BY <1>1, <2>1, <2>2, <2>4, <3>1
  <2> QED
    BY <2>3, <2>4
<1>4. /\ LeftEdge(b) \in DOMAIN areas
      /\ LeftEdge(b) <= b
      /\ \A p \in FreeAreas : EndOf(p) # LeftEdge(b)
      /\ \A c \in DOMAIN areas :
           LeftEdge(b) <= c /\ c < b => c \in FreeAreas
  <2>1. CASE \E p \in FreeAreas : EndOf(p) = b
    <3>1. LeftEdge(b) \in FreeAreas /\ EndOf(LeftEdge(b)) = b
      BY <2>1 DEF LeftEdge
    <3>2. LeftEdge(b) \in DOMAIN areas
      BY <3>1 DEF FreeAreas
    <3>3. LeftEdge(b) < b /\ LeftEdge(b) \in Nat
      BY <1>2, <3>1, <3>2, AreaFacts
    <3>4. \A c \in DOMAIN areas :
            LeftEdge(b) <= c /\ c < b => c = LeftEdge(b)
      BY <1>2, <3>1, <3>2, AreaFacts DEF Tiling
    <3> QED
      BY <1>1, <1>2, <3>1, <3>2, <3>3, <3>4, AreaFacts DEF NoAdjacentFree
  <2>2. CASE ~ \E p \in FreeAreas : EndOf(p) = b
    <3>1. LeftEdge(b) = b
      BY <2>2 DEF LeftEdge
    <3> QED
      BY <1>1, <1>2, <2>2, <3>1, AreaFacts
  <2> QED
    BY <2>1, <2>2
<1>5. /\ LeftEdge(b) \in Nat /\ b \in Nat /\ EndOf(b) \in Nat
      /\ RightEdge(b) \in Nat /\ b < EndOf(b)
  BY <1>1, <1>2, <1>3, <1>4, AreaFacts, PoolAssumption
<1>6. \A c \in DOMAIN areas : c \in Nat
  BY <1>2, AreaFacts
<1> QED
  BY <1>3, <1>4, <1>5, <1>6 DEF Block

-----------------------------------------------------------------------------
(* Rewriting a block keeps the layout.                                     *)

LEMMA CoalesceLayout ==
  ASSUME Layout, NEW lo, NEW hi, Block(lo, hi),
         areas' = Coalesce(lo, hi),
         offScreenCounter' \in 0 .. CounterMod - 1,
         numOffscreenAvailable' \in Int
  PROVE  Layout'
<1>1. \A b \in DOMAIN areas :
        /\ b \in Nat /\ OffScreenBase <= b /\ b < MemorySize
        /\ areas[b] \in Area
        /\ EndOf(b) \in Nat /\ b < EndOf(b)
  BY AreaFacts DEF Layout
<1>2. /\ lo \in DOMAIN areas /\ hi \in DOMAIN areas \cup {MemorySize}
      /\ lo < hi /\ lo \in Nat /\ hi \in Nat /\ hi <= MemorySize
      /\ areas # NoAreas
  BY <1>1, NonEmpty, PoolAssumption DEF Block, Layout
<1>3. DOMAIN areas' = {c \in DOMAIN areas : c <= lo \/ hi <= c}
  BY DEF Coalesce
<1>4. /\ areas'[lo].size = hi - lo
      /\ areas'[lo].state = Avail
      /\ areas'[lo] \in Area
  <2>1. areas'[lo] = Hole(lo, hi, areas[lo].offset, areas[lo].align)
    BY <1>2 DEF Coalesce
  <2>2. areas[lo].offset \in Nat /\ areas[lo].align \in Nat
    BY <1>1, <1>2 DEF Area
  <2>3. hi - lo \in Nat \ {0}
    BY <1>2
  <2> QED
    BY <2>1, <2>2, <2>3, CounterAssumption
    DEF Hole, Area, States
<1>5. \A b \in DOMAIN areas' : b # lo => areas'[b] = areas[b]
  BY DEF Coalesce
<1>6. /\ lo \in DOMAIN areas'
      /\ EndOf(lo)' = hi
      /\ \A b \in DOMAIN areas' : b # lo => EndOf(b)' = EndOf(b)
  BY <1>2, <1>3, <1>4, <1>5 DEF EndOf
<1>7. TypeOK'
  <2>1. \A b \in DOMAIN areas' : areas'[b] \in Area
    BY <1>1, <1>3, <1>4, <1>5
  <2>2. areas' = [b \in DOMAIN areas' |-> areas'[b]]
    BY DEF Coalesce
  <2>3. DOMAIN areas' \subseteq OffScreenBase .. MemorySize - 1
    BY <1>3 DEF Layout, TypeOK
  <2> QED
    BY <2>1, <2>2, <2>3 DEF TypeOK
<1>8. Tiling'
  <2>1. /\ OffScreenBase \in DOMAIN areas
        /\ \A b \in DOMAIN areas : EndOf(b) \in DOMAIN areas \cup {MemorySize}
        /\ \A c \in DOMAIN areas \ {OffScreenBase} :
             \E b \in DOMAIN areas : EndOf(b) = c
        /\ \A b, c \in DOMAIN areas : b < c => EndOf(b) <= c
    BY <1>2 DEF Layout, Tiling
  <2>2. OffScreenBase \in DOMAIN areas'
    BY <1>1, <1>2, <1>3, <2>1, PoolAssumption
  <2>3. \A b \in DOMAIN areas' : EndOf(b)' \in DOMAIN areas' \cup {MemorySize}
    BY <1>1, <1>2, <1>3, <1>6, <2>1
  <2>4. ASSUME NEW c \in DOMAIN areas' \ {OffScreenBase}
        PROVE  \E b \in DOMAIN areas' : EndOf(b)' = c
    <3>1. PICK p \in DOMAIN areas : EndOf(p) = c
      BY <1>3, <2>1
    <3>2. CASE c = hi
      BY <1>6, <3>2
    <3>3. CASE c # hi
      BY <1>1, <1>2, <1>3, <1>6, <2>1, <3>1, <3>3
    <3> QED
      BY <3>2, <3>3
  <2>5. \A b, c \in DOMAIN areas' : b < c => EndOf(b)' <= c
    BY <1>1, <1>2, <1>3, <1>6, <2>1
  <2> QED
    BY <2>2, <2>3, <2>4, <2>5 DEF Tiling
<1>9. NoAdjacentFree'
  <2>1. FreeAreas' = {b \in DOMAIN areas' : b = lo \/ b \in FreeAreas}
    BY <1>3, <1>4, <1>5 DEF FreeAreas, IsFree
  <2>2. \A p \in FreeAreas : EndOf(p) # lo
    BY DEF Block
  <2>3. hi \notin FreeAreas
    BY DEF Block
  <2> QED
    BY <1>2, <1>6, <2>1, <2>2, <2>3 DEF NoAdjacentFree, Layout
<1> QED
  BY <1>7, <1>8, <1>9 DEF Layout

LEMMA PlaceLayout ==
  ASSUME Layout, NEW lo, NEW hi, Block(lo, hi),
         NEW r \in Requests, NEW n \in 1 .. hi - lo,
         areas' = Place(lo, hi, n, r),
         offScreenCounter' \in 0 .. CounterMod - 1,
         numOffscreenAvailable' \in Int
  PROVE  Layout'
<1>1. \A b \in DOMAIN areas :
        /\ b \in Nat /\ OffScreenBase <= b /\ b < MemorySize
        /\ areas[b] \in Area
        /\ EndOf(b) \in Nat /\ b < EndOf(b)
  BY AreaFacts DEF Layout
<1>2. /\ lo \in DOMAIN areas /\ hi \in DOMAIN areas \cup {MemorySize}
      /\ lo < hi /\ lo \in Nat /\ hi \in Nat /\ hi <= MemorySize
      /\ areas # NoAreas
  BY <1>1, NonEmpty, PoolAssumption DEF Block, Layout
<1> DEFINE at == hi - n
<1>3. at \in Nat /\ lo <= at /\ at < hi /\ n \in Nat \ {0}
  BY <1>2
<1>4. DOMAIN areas' = {c \in DOMAIN areas : c < lo \/ hi <= c} \cup {lo, at}
  BY DEF Place
<1>5. /\ areas'[at].size = n
      /\ areas'[at].state # Avail
      /\ areas'[at] \in Area
  <2>1. areas'[at] = [size     |-> n,
                      state    |-> IF r.locked THEN Locked ELSE Removable,
                      offset   |-> RoundUp(at, AlignOf(r)),
                      align    |-> AlignOf(r),
                      last_use |-> offScreenCounter,
                      want     |-> r.size]
    BY <1>4 DEF Place
  <2>2. AlignOf(r) \in Nat \ {0} /\ r.size \in Nat
    BY RequestAssumption DEF AlignOf
  <2>3. RoundUp(at, AlignOf(r)) \in Nat
    BY <1>3, <2>2, RoundUpFacts
  <2>4. offScreenCounter \in 0 .. CounterMod - 1
    BY DEF Layout, TypeOK
  <2> QED
    BY <1>3, <2>1, <2>2, <2>3, <2>4
    DEF Area, States, Locked, Removable, Avail
<1>6. lo # at => /\ areas'[lo].size = at - lo
                 /\ areas'[lo].state = Avail
                 /\ areas'[lo] \in Area
  <2>1. SUFFICES ASSUME lo # at
                 PROVE  /\ areas'[lo].size = at - lo
                        /\ areas'[lo].state = Avail
                        /\ areas'[lo] \in Area
    OBVIOUS
  <2>2. areas'[lo] = Hole(lo, at, lo, 0)
    BY <1>4, <2>1 DEF Place
  <2>3. at - lo \in Nat \ {0}
    BY <1>2, <1>3, <2>1
  <2> QED
    BY <1>2, <2>2, <2>3, CounterAssumption DEF Hole, Area, States
<1>7. \A b \in DOMAIN areas' : b # lo /\ b # at => areas'[b] = areas[b]
  BY DEF Place
<1>8. /\ lo \in DOMAIN areas' /\ at \in DOMAIN areas'
      /\ EndOf(at)' = hi
      /\ lo # at => EndOf(lo)' = at
      /\ \A b \in DOMAIN areas' : b # lo /\ b # at => EndOf(b)' = EndOf(b)
  BY <1>2, <1>3, <1>4, <1>5, <1>6, <1>7 DEF EndOf
<1>9. TypeOK'
  <2>1. \A b \in DOMAIN areas' : areas'[b] \in Area
    BY <1>1, <1>4, <1>5, <1>6, <1>7
  <2>2. areas' = [b \in DOMAIN areas' |-> areas'[b]]
    BY DEF Place
  <2>3. DOMAIN areas' \subseteq OffScreenBase .. MemorySize - 1
    BY <1>1, <1>2, <1>3, <1>4, PoolAssumption
  <2> QED
    BY <2>1, <2>2, <2>3 DEF TypeOK
<1>10. Tiling'
  <2>1. /\ OffScreenBase \in DOMAIN areas
        /\ \A b \in DOMAIN areas : EndOf(b) \in DOMAIN areas \cup {MemorySize}
        /\ \A c \in DOMAIN areas \ {OffScreenBase} :
             \E b \in DOMAIN areas : EndOf(b) = c
        /\ \A b, c \in DOMAIN areas : b < c => EndOf(b) <= c
    BY <1>2 DEF Layout, Tiling
  <2> HIDE DEF at
  <2>2. OffScreenBase \in DOMAIN areas'
    BY <1>1, <1>2, <1>4, <2>1, PoolAssumption
  <2>3. ASSUME NEW b \in DOMAIN areas'
        PROVE  EndOf(b)' \in DOMAIN areas' \cup {MemorySize}
    <3>1. CASE b = at
      BY <1>2, <1>4, <1>8, <3>1
    <3>2. CASE b = lo /\ lo # at
      BY <1>8, <3>2
    <3>3. CASE b # lo /\ b # at
      <4>1. EndOf(b)' = EndOf(b) /\ b \in DOMAIN areas /\ (b < lo \/ hi <= b)
        BY <1>4, <1>8, <3>3
      <4>2. EndOf(b) \in DOMAIN areas \cup {MemorySize} /\ EndOf(b) \in Int
        BY <1>1, <2>1, <4>1, PoolAssumption
      <4>3. b < lo => EndOf(b) <= lo
        BY <1>1, <1>2, <2>1, <4>1
      <4>4. hi <= b => hi <= EndOf(b)
        BY <1>1, <1>2, <2>1, <4>1
      <4> QED
        BY <1>1, <1>2, <1>4, <1>8, <4>1, <4>2, <4>3, <4>4
    <3> QED
      BY <3>1, <3>2, <3>3
  <2>4. ASSUME NEW c \in DOMAIN areas' \ {OffScreenBase}
        PROVE  \E b \in DOMAIN areas' : EndOf(b)' = c
    <3>1. CASE c = at /\ c # lo
      BY <1>8, <3>1
    <3>2. CASE c = hi
      BY <1>8, <3>2
    <3>3. CASE c # hi /\ ~ (c = at /\ c # lo)
      <4>1. c \in DOMAIN areas /\ (c <= lo \/ hi < c)
        BY <1>1, <1>2, <1>4, <3>3
      <4>2. PICK p \in DOMAIN areas : EndOf(p) = c
        BY <2>1, <4>1
      <4> QED
        BY <1>1, <1>2, <1>3, <1>4, <1>8, <2>1, <4>1, <4>2
    <3> QED
      BY <3>1, <3>2, <3>3
  <2>5. \A b, c \in DOMAIN areas' : b < c => EndOf(b)' <= c
    BY <1>1, <1>2, <1>3, <1>4, <1>8, <2>1
  <2> QED
    BY <2>2, <2>3, <2>4, <2>5 DEF Tiling
<1>11. NoAdjacentFree'
  <2>1. FreeAreas' =
          {b \in DOMAIN areas' : b # at /\ (b = lo \/ b \in FreeAreas)}
    BY <1>4, <1>5, <1>6, <1>7 DEF FreeAreas, IsFree
  <2>2. \A p \in FreeAreas : EndOf(p) # lo
    BY DEF Block
  <2>3. hi \notin FreeAreas
    BY DEF Block
  <2> QED
    BY <1>2, <1>3, <1>8, <2>1, <2>2, <2>3 DEF NoAdjacentFree, Layout
<1> QED
  BY <1>9, <1>10, <1>11 DEF Layout

-----------------------------------------------------------------------------
(* Rewriting a block keeps the count of free areas.                        *)

LEMMA FreeFinite ==
  ASSUME TypeOK
  PROVE  IsFiniteSet(FreeAreas) /\ Cardinality(FreeAreas) \in Nat
<1>1. FreeAreas \subseteq OffScreenBase .. MemorySize - 1
  BY DEF TypeOK, FreeAreas
<1>2. IsFiniteSet(OffScreenBase .. MemorySize - 1)
  BY PoolAssumption, FS_Interval
<1> QED
  BY <1>1, <1>2, FS_Subset, FS_CardinalityType

LEMMA FreeInCount ==
  ASSUME TypeOK, NEW lo, NEW hi
  PROVE  LET rest == FreeAreas \ FreeIn(lo, hi)
             left == Cardinality(FreeAreas) - Cardinality(FreeIn(lo, hi))
         IN  /\ Cardinality(rest) = left
             /\ lo \notin rest => Cardinality(rest \cup {lo}) = left + 1
<1> DEFINE rest == FreeAreas \ FreeIn(lo, hi)
<1>1. FreeAreas \cap FreeIn(lo, hi) = FreeIn(lo, hi)
  BY DEF FreeIn
<1>2. /\ IsFiniteSet(rest)
      /\ Cardinality(rest) =
           Cardinality(FreeAreas) - Cardinality(FreeIn(lo, hi))
  BY <1>1, FreeFinite, FS_Difference
<1>3. lo \notin rest => Cardinality(rest \cup {lo}) = Cardinality(rest) + 1
  BY <1>2, FS_AddElement
<1> QED
  BY <1>2, <1>3

LEMMA CoalesceCount ==
  ASSUME Layout, FreeCounted, NEW lo, NEW hi, Block(lo, hi),
         areas' = Coalesce(lo, hi),
         numOffscreenAvailable' = Recount(lo, hi)
  PROVE  FreeCounted'
<1>1. /\ lo \in DOMAIN areas /\ lo < hi /\ areas # NoAreas
      /\ \A b \in DOMAIN areas : b \in Nat
      /\ hi \in Nat
  BY AreaFacts, NonEmpty, PoolAssumption DEF Block, Layout
<1>2. DOMAIN areas' = {c \in DOMAIN areas : c <= lo \/ hi <= c}
  BY DEF Coalesce
<1>3. /\ areas'[lo].state = Avail
      /\ \A b \in DOMAIN areas' : b # lo => areas'[b] = areas[b]
  BY <1>1 DEF Coalesce, Hole
<1>4. FreeAreas' = (FreeAreas \ FreeIn(lo, hi)) \cup {lo}
  BY <1>1, <1>2, <1>3 DEF FreeAreas, FreeIn, IsFree
<1>5. lo \notin FreeAreas \ FreeIn(lo, hi)
  BY <1>1 DEF FreeIn
<1>6. Cardinality(FreeAreas') =
        Cardinality(FreeAreas) - Cardinality(FreeIn(lo, hi)) + 1
  BY <1>4, <1>5, FreeInCount DEF Layout
<1>7. Cardinality(FreeAreas) = numOffscreenAvailable
  BY <1>1 DEF FreeCounted
<1>8. numOffscreenAvailable \in Int /\ Cardinality(FreeIn(lo, hi)) \in Nat
  <2>1. FreeIn(lo, hi) \subseteq FreeAreas
    BY DEF FreeIn
  <2> QED
    BY <2>1, FreeFinite, FS_Subset, FS_CardinalityType DEF Layout, TypeOK
<1> QED
  BY <1>6, <1>7, <1>8 DEF FreeCounted, Recount

LEMMA PlaceCount ==
  ASSUME Layout, FreeCounted, NEW lo, NEW hi, Block(lo, hi),
         NEW r \in Requests, NEW n \in 1 .. hi - lo,
         areas' = Place(lo, hi, n, r),
         numOffscreenAvailable' =
           IF n < hi - lo THEN Recount(lo, hi) ELSE Recount(lo, hi) - 1
  PROVE  FreeCounted'
<1> DEFINE at == hi - n
<1>1. /\ lo \in DOMAIN areas /\ lo < hi /\ areas # NoAreas
      /\ \A b \in DOMAIN areas : b \in Nat
      /\ hi \in Nat /\ n \in Nat \ {0}
      /\ lo <= at /\ at < hi /\ at \in Nat
  BY AreaFacts, NonEmpty, PoolAssumption DEF Block, Layout
<1>2. DOMAIN areas' = {c \in DOMAIN areas : c < lo \/ hi <= c} \cup {lo, at}
  BY DEF Place
<1>3. /\ areas'[at].state # Avail
      /\ lo # at => areas'[lo].state = Avail
      /\ \A b \in DOMAIN areas' : b # lo /\ b # at => areas'[b] = areas[b]
  BY <1>2 DEF Place, Hole, Avail, Locked, Removable
<1>4. Cardinality(FreeAreas) = numOffscreenAvailable
  BY <1>1 DEF FreeCounted
<1>5. numOffscreenAvailable \in Int /\ Cardinality(FreeIn(lo, hi)) \in Nat
  <2>1. FreeIn(lo, hi) \subseteq FreeAreas
    BY DEF FreeIn
  <2> QED
    BY <2>1, FreeFinite, FS_Subset, FS_CardinalityType DEF Layout, TypeOK
<1>6. CASE lo # at
  <2>1. FreeAreas' = (FreeAreas \ FreeIn(lo, hi)) \cup {lo}
    BY <1>1, <1>2, <1>3, <1>6 DEF FreeAreas, FreeIn, IsFree
  <2>2. lo \notin FreeAreas \ FreeIn(lo, hi)
    BY <1>1 DEF FreeIn
  <2>3. Cardinality(FreeAreas') =
          Cardinality(FreeAreas) - Cardinality(FreeIn(lo, hi)) + 1
    BY <2>1, <2>2, FreeInCount DEF Layout
  <2>4. numOffscreenAvailable' = Recount(lo, hi)
    BY <1>1, <1>6
  <2> QED
    BY <1>4, <1>5, <2>3, <2>4 DEF FreeCounted, Recount
<1>7. CASE lo = at
  <2>1. FreeAreas' = FreeAreas \ FreeIn(lo, hi)
    BY <1>1, <1>2, <1>3, <1>7 DEF FreeAreas, FreeIn, IsFree
  <2>2. Cardinality(FreeAreas') =
          Cardinality(FreeAreas) - Cardinality(FreeIn(lo, hi))
    BY <2>1, FreeInCount DEF Layout
  <2>3. numOffscreenAvailable' = Recount(lo, hi) - 1
    BY <1>1, <1>7
  <2> QED
    BY <1>4, <1>5, <2>2, <2>3 DEF FreeCounted, Recount
<1> QED
  BY <1>6, <1>7

-----------------------------------------------------------------------------
(* What the search for a region finds.                                     *)

LEMMA SizeFacts ==
  ASSUME TypeOK, NEW b \in DOMAIN areas, NEW r \in Requests, ~ Rejected(r)
  PROVE  /\ r.size \in Nat \ {0} /\ AlignOf(r) \in Nat \ {0}
         /\ HeadSize(b, r) \in Nat /\ r.size <= HeadSize(b, r)
         /\ TailSize(b, r) \in Nat \ {0}
<1>1. r.size \in Nat \ {0} /\ AlignOf(r) \in Nat \ {0}
  BY RequestAssumption DEF Rejected, AlignOf
<1>2. HeadSize(b, r) \in Nat /\ r.size <= HeadSize(b, r)
  <2> DEFINE a == AlignOf(r)
  <2>1. a \in Nat \ {0} /\ b \in Nat
    BY <1>1, AreaFacts
  <2>2. HeadSize(b, r) = r.size + (IF b % a # 0 THEN a - (b % a) ELSE 0)
    BY DEF HeadSize
  <2> HIDE DEF a
  <2>3. b % a \in 0 .. a - 1
    BY <2>1, ModRange
  <2> QED
    BY <1>1, <2>1, <2>2, <2>3
<1>3. TailSize(b, r) \in Nat \ {0}
  <2> DEFINE a == AlignOf(r)
             x == EndOf(b) - r.size
  <2>1. /\ a \in Nat \ {0} /\ x \in Int /\ EndOf(b) \in Nat \ {0}
        /\ EndOf(b) = x + r.size
    BY <1>1, AreaFacts
  <2>2. TailSize(b, r) = r.size + CRem(x, a)
    BY DEF TailSize
  <2> HIDE DEF a, x
  <2>3. CASE x >= 0
    <3>1. CRem(x, a) = x % a /\ x % a \in 0 .. a - 1
      BY <2>1, <2>3, ModRange DEF CRem
    <3> QED
      BY <1>1, <2>1, <2>2, <3>1
  <2>4. CASE x < 0
    <3>1. (0 - x) % a \in Nat /\ (0 - x) % a <= 0 - x
      BY <2>1, <2>4
    <3>2. CRem(x, a) = 0 - ((0 - x) % a)
      BY <2>1, <2>4 DEF CRem
    <3> QED
      BY <1>1, <2>1, <2>2, <3>1, <3>2
  <2> QED
    BY <2>1, <2>3, <2>4
<1> QED
  BY <1>1, <1>2, <1>3

\* A free area is a block by itself.
LEMMA FreeBlock ==
  ASSUME Layout, NEW b \in FreeAreas
  PROVE  /\ Block(b, EndOf(b))
         /\ \A c \in DOMAIN areas : b <= c /\ c < EndOf(b) => c = b
<1>1. b \in DOMAIN areas /\ areas # NoAreas
  BY NonEmpty DEF FreeAreas, Layout
<1>2. \A c \in DOMAIN areas : c \in Nat /\ EndOf(c) \in Nat /\ c < EndOf(c)
  BY AreaFacts DEF Layout
<1>3. /\ EndOf(b) \in DOMAIN areas \cup {MemorySize}
      /\ \A c \in DOMAIN areas : b < c => EndOf(b) <= c
  BY <1>1 DEF Layout, Tiling
<1>4. EndOf(b) \notin FreeAreas /\ \A p \in FreeAreas : EndOf(p) # b
  BY DEF Layout, NoAdjacentFree
<1> QED
  BY <1>1, <1>2, <1>3, <1>4 DEF Block

LEMMA CandidateFacts ==
  ASSUME Layout, NEW r \in Requests, ~ Rejected(r), NEW b \in Candidates(r)
  PROVE  /\ b \in DOMAIN areas
         /\ HeadSize(b, r) \in Nat \ {0}
         /\ b + HeadSize(b, r) <= MemorySize
         /\ \A c \in DOMAIN areas :
              b <= c /\ c < b + HeadSize(b, r) => areas[c].state # Locked
<1>1. b \in DOMAIN areas
  BY DEF Candidates
<1>2. /\ HeadSize(b, r) \in Nat /\ r.size \in Nat \ {0}
      /\ r.size <= HeadSize(b, r)
  BY <1>1, SizeFacts DEF Layout
<1> QED
  BY <1>1, <1>2 DEF Candidates, Span

LEMMA RegionBlock ==
  ASSUME Layout, NEW r \in Requests, NEW region \in Regions(r)
  PROVE  /\ Block(region[1], region[2])
         /\ region[3] \in 1 .. region[2] - region[1]
         /\ \A c \in DOMAIN areas :
              region[1] <= c /\ c < region[2] => areas[c].state # Locked
<1>1. ~ Rejected(r)
  BY DEF Regions
<1>2. \A c \in DOMAIN areas :
        /\ c \in Nat /\ EndOf(c) \in Nat /\ c < EndOf(c)
        /\ c \in Used <=> c \notin FreeAreas
        /\ c \in FreeAreas => areas[c].state # Locked
  BY AreaFacts DEF Layout, Avail, Locked
<1>3. CASE FitsFree(r) # {}
  <2>1. PICK b \in FitsFree(r) : region = <<b, EndOf(b), TailSize(b, r)>>
    BY <1>1, <1>3 DEF Regions, FirstFit
  <2>2. /\ b \in FreeAreas /\ b \in DOMAIN areas
        /\ TailSize(b, r) <= areas[b].size
    BY DEF FitsFree, FreeAreas
  <2>3. TailSize(b, r) \in Nat \ {0} /\ areas[b].size = EndOf(b) - b
    BY <1>1, <2>2, SizeFacts, AreaFacts DEF Layout, EndOf
  <2>4. /\ Block(b, EndOf(b))
        /\ \A c \in DOMAIN areas : b <= c /\ c < EndOf(b) => c = b
    BY <2>2, FreeBlock
  <2>5. TailSize(b, r) \in 1 .. EndOf(b) - b
    BY <1>2, <2>2, <2>3
  <2> QED
    BY <1>2, <2>1, <2>2, <2>4, <2>5
<1>4. CASE FitsFree(r) = {}
  <2>1. PICK b \in Cheapest(r) :
          LET lo == IF IsFree(b) THEN b ELSE LeftEdge(b)
              n  == HeadSize(b, r)
          IN  region \in {<<lo, hi, n>> : hi \in
                 {e \in Stops(b, lo, n) : \A f \in Stops(b, lo, n) : e <= f}}
    BY <1>1, <1>4 DEF Regions, Evicting
  <2> DEFINE lo == IF IsFree(b) THEN b ELSE LeftEdge(b)
             n  == HeadSize(b, r)
  <2>2. PICK hi \in Stops(b, lo, n) :
          /\ region = <<lo, hi, n>>
          /\ \A f \in Stops(b, lo, n) : hi <= f
    BY <2>1
  <2>3. /\ b \in DOMAIN areas /\ n \in Nat \ {0}
        /\ \A c \in DOMAIN areas :
             b <= c /\ c < b + n => areas[c].state # Locked
    BY <1>1, CandidateFacts DEF Cheapest
  <2>4. /\ lo \in DOMAIN areas /\ lo <= b
        /\ \A p \in FreeAreas : EndOf(p) # lo
        /\ \A c \in DOMAIN areas : lo <= c /\ c < b => c \in FreeAreas
    <3>1. CASE IsFree(b)
      <4>1. lo = b /\ b \in FreeAreas
        BY <2>3, <3>1 DEF FreeAreas
      <4> QED
        BY <1>2, <2>3, <4>1, FreeBlock DEF Block
    <3>2. CASE ~ IsFree(b)
      <4>1. lo = LeftEdge(b) /\ b \in Used
        BY <2>3, <3>2 DEF Used, IsFree, IsUsed
      <4>2. /\ Block(LeftEdge(b), RightEdge(b))
            /\ LeftEdge(b) <= b /\ EndOf(b) <= RightEdge(b)
            /\ \A c \in DOMAIN areas :
                 LeftEdge(b) <= c /\ c < RightEdge(b)
                   => c = b \/ c \in FreeAreas
        BY <4>1, FreedBlock
      <4>3. RightEdge(b) \in Nat
        BY <1>2, <4>2, PoolAssumption DEF Block
      <4> QED
        BY <1>2, <2>3, <4>1, <4>2, <4>3 DEF Block
    <3> QED
      BY <3>1, <3>2
  <2> HIDE DEF lo, n
  <2>5. /\ hi \in DOMAIN areas \cup {MemorySize} /\ hi \in Nat
        /\ n <= hi - lo /\ hi \notin FreeAreas
    <3>1. PICK d \in DOMAIN areas : hi = EndOf(d)
      BY DEF Stops
    <3> QED
      BY <1>2, <3>1, NonEmpty DEF Stops, Layout, Tiling
  <2>6. /\ Block(lo, hi)
        /\ n \in 1 .. hi - lo
    BY <1>2, <2>3, <2>4, <2>5 DEF Block
  <2>7. ASSUME NEW c \in DOMAIN areas, lo <= c, c < hi
        PROVE  areas[c].state # Locked
    <3>1. CASE c < b + n
      BY <1>2, <2>3, <2>4, <2>7, <3>1
    <3>2. CASE b + n <= c
      <4>1. c # OffScreenBase
        BY <1>2, <2>3, <3>2, AreaFacts DEF Layout
      <4>2. PICK p \in DOMAIN areas : EndOf(p) = c
        BY <2>7, <4>1, NonEmpty DEF Layout, Tiling
      <4>3. b <= p
        BY <1>2, <2>3, <3>2, <4>2, NonEmpty DEF Layout, Tiling
      <4>4. c \notin FreeAreas => c \in Stops(b, lo, n)
        BY <1>2, <2>3, <2>4, <3>2, <4>2, <4>3 DEF Stops
      <4> QED
        BY <1>2, <2>2, <2>5, <2>7, <4>4
    <3> QED
      BY <1>2, <2>3, <3>1, <3>2
  <2> QED
    BY <2>2, <2>6, <2>7
<1> QED
  BY <1>3, <1>4

-----------------------------------------------------------------------------
(* The steps of the specification.                                         *)

LEMMA AllocStep ==
  ASSUME IInv, NEW r \in Requests, OffscreenAlloc(r)
  PROVE  IInv'
<1>1. PICK region \in Regions(r) :
        AllocIn(region[1], region[2], region[3], r)
  BY DEF OffscreenAlloc
<1> DEFINE lo == region[1]
           hi == region[2]
           n  == region[3]
<1>2. Block(lo, hi) /\ n \in 1 .. hi - lo
  BY RegionBlock DEF IInv
<1>3. /\ areas' = Place(lo, hi, n, r)
      /\ offScreenCounter' = (offScreenCounter + 1) % CounterMod
      /\ numOffscreenAvailable' =
           IF n < hi - lo THEN Recount(lo, hi) ELSE Recount(lo, hi) - 1
  BY <1>1 DEF AllocIn
<1> HIDE DEF lo, hi, n
<1>4. offScreenCounter' \in 0 .. CounterMod - 1
  <2>1. offScreenCounter + 1 \in Int /\ CounterMod \in Nat \ {0}
    BY CounterAssumption DEF IInv, Layout, TypeOK
  <2> QED
    BY <1>3, <2>1, ModRange
<1>5. Recount(lo, hi) \in Int
  <2>1. FreeIn(lo, hi) \subseteq FreeAreas
    BY DEF FreeIn
  <2>2. Cardinality(FreeIn(lo, hi)) \in Nat
    BY <2>1, FreeFinite, FS_Subset, FS_CardinalityType
    DEF IInv, Layout
  <2> QED
    BY <2>2 DEF Recount, IInv, Layout, TypeOK
<1>6. numOffscreenAvailable' \in Int
  BY <1>3, <1>5
<1>7. Layout'
  BY <1>2, <1>3, <1>4, <1>6, PlaceLayout DEF IInv
<1>8. FreeCounted'
  BY <1>2, <1>3, PlaceCount DEF IInv
<1> QED
  BY <1>7, <1>8 DEF IInv

\* The steps that leave one free area where a block was.
LEMMA CoalesceStep ==
  ASSUME IInv, NEW lo, NEW hi, Block(lo, hi),
         areas' = Coalesce(lo, hi),
         numOffscreenAvailable' = Recount(lo, hi),
         UNCHANGED offScreenCounter
  PROVE  IInv'
<1>1. FreeIn(lo, hi) \subseteq FreeAreas
  BY DEF FreeIn
<1>2. Cardinality(FreeIn(lo, hi)) \in Nat
  BY <1>1, FreeFinite, FS_Subset, FS_CardinalityType DEF IInv, Layout
<1>3. /\ numOffscreenAvailable' \in Int
      /\ offScreenCounter' \in 0 .. CounterMod - 1
  BY <1>2 DEF Recount, IInv, Layout, TypeOK
<1> QED
  BY <1>3, CoalesceLayout, CoalesceCount DEF IInv

\* Taking the manager down leaves nothing to hold of the areas.
LEMMA EmptyHolds ==
  ASSUME areas' = NoAreas,
         offScreenCounter' \in 0 .. CounterMod - 1,
         numOffscreenAvailable' \in Int
  PROVE  IInv'
<1>1. DOMAIN areas' = {} /\ areas' = [b \in DOMAIN areas' |-> areas'[b]]
  BY DEF NoAreas
<1>2. TypeOK'
  BY <1>1 DEF TypeOK
<1>3. Tiling' /\ FreeCounted' /\ NoAdjacentFree'
  BY <1>1 DEF Tiling, FreeCounted, NoAdjacentFree, FreeAreas
<1> QED
  BY <1>2, <1>3 DEF IInv, Layout

LEMMA InitStep ==
  ASSUME OffscreenInit
  PROVE  IInv'
<1>1. /\ DOMAIN areas' = {OffScreenBase}
      /\ areas'[OffScreenBase] =
           Hole(OffScreenBase, MemorySize, OffScreenBase, 0)
      /\ areas' = [b \in DOMAIN areas' |-> areas'[b]]
      /\ offScreenCounter' = 1 /\ numOffscreenAvailable' = 1
  BY DEF OffscreenInit
<1>2. /\ areas'[OffScreenBase] \in Area
      /\ areas'[OffScreenBase].size = MemorySize - OffScreenBase
      /\ areas'[OffScreenBase].state = Avail
  BY <1>1, PoolAssumption, CounterAssumption DEF Hole, Area, States
<1>3. /\ EndOf(OffScreenBase)' = MemorySize
      /\ FreeAreas' = {OffScreenBase}
  BY <1>1, <1>2, PoolAssumption DEF EndOf, FreeAreas, IsFree
<1>4. TypeOK'
  BY <1>1, <1>2, PoolAssumption, CounterAssumption DEF TypeOK
<1>5. Tiling' /\ NoAdjacentFree'
  BY <1>1, <1>3, PoolAssumption DEF Tiling, NoAdjacentFree
<1>6. FreeCounted'
  BY <1>1, <1>3, FS_Singleton DEF FreeCounted
<1> QED
  BY <1>4, <1>5, <1>6 DEF IInv, Layout

LEMMA InductiveInit == Init => IInv
<1> SUFFICES ASSUME Init PROVE IInv
  OBVIOUS
<1>1. DOMAIN areas = {} /\ areas = [b \in DOMAIN areas |-> areas[b]]
  BY DEF Init, NoAreas
<1>2. TypeOK
  BY <1>1, CounterAssumption DEF Init, TypeOK
<1>3. Tiling /\ FreeCounted /\ NoAdjacentFree
  BY <1>1 DEF Init, Tiling, FreeCounted, NoAdjacentFree, FreeAreas
<1> QED
  BY <1>2, <1>3 DEF IInv, Layout

LEMMA InductiveStep == IInv /\ [Next]_vars => IInv'
<1> SUFFICES ASSUME IInv, [Next]_vars PROVE IInv'
  OBVIOUS
<1>1. CASE OffscreenInit
  BY <1>1, InitStep
<1>2. ASSUME NEW r \in Requests, OffscreenAlloc(r) PROVE IInv'
  BY <1>2, AllocStep
<1>3. ASSUME NEW r \in Requests, AllocNoMemory(r) PROVE IInv'
  <2>1. PICK region \in Regions(r) :
          /\ areas' = Coalesce(region[1], region[2])
          /\ numOffscreenAvailable' = Recount(region[1], region[2])
          /\ UNCHANGED offScreenCounter
    BY <1>3 DEF AllocNoMemory
  <2> QED
    BY <2>1, RegionBlock, CoalesceStep DEF IInv
<1>4. ASSUME NEW b \in Used, OffscreenFree(b) PROVE IInv'
  BY <1>4, FreedBlock, CoalesceStep DEF OffscreenFree, IInv
<1>5. CASE OffscreenFini
  BY <1>5, EmptyHolds DEF OffscreenFini, IInv, Layout, TypeOK
<1>6. CASE OffscreenSwapOut
  <2>1. FreeIn(OffScreenBase, MemorySize) \subseteq FreeAreas
    BY DEF FreeIn
  <2>2. Cardinality(FreeIn(OffScreenBase, MemorySize)) \in Nat
    BY <2>1, FreeFinite, FS_Subset, FS_CardinalityType DEF IInv, Layout
  <2>3. numOffscreenAvailable' \in Int
    BY <1>6, <2>2 DEF OffscreenSwapOut, Recount, IInv, Layout, TypeOK
  <2> QED
    BY <1>6, <2>3, EmptyHolds DEF OffscreenSwapOut, IInv, Layout, TypeOK
<1>7. CASE UNCHANGED vars
  BY <1>7 DEF vars, IInv, Layout, TypeOK, Tiling, NoAdjacentFree, FreeCounted,
              FreeAreas, IsFree, EndOf
<1> QED
  BY <1>1, <1>2, <1>3, <1>4, <1>5, <1>6, <1>7 DEF Next

-----------------------------------------------------------------------------
(* Theorems, for every pool and every set of requests. *)

\* The conjunction of everything below is an invariant.
THEOREM InductiveInvariant == Spec => []IInv
  BY InductiveInit, InductiveStep, PTL DEF Spec

\* Every area record has its type and starts inside the pool.
THEOREM TypeCorrect == Spec => []TypeOK
<1>1. IInv => TypeOK
  BY DEF IInv, Layout
<1> QED
  BY <1>1, InductiveInvariant, PTL

\* The areas divide the pool without gap or overlap, as OffscreenValidate
\* asserts after every operation, whatever is asked for, evicted or freed.
THEOREM AreasTile == Spec => []Tiling
<1>1. IInv => Tiling
  BY DEF IInv, Layout
<1> QED
  BY <1>1, InductiveInvariant, PTL

\* No two free areas ever touch: merging on every free is enough.
THEOREM FreeAreasApart == Spec => []NoAdjacentFree
<1>1. IInv => NoAdjacentFree
  BY DEF IInv, Layout
<1> QED
  BY <1>1, InductiveInvariant, PTL

\* numOffscreenAvailable counts the free areas, through every split and merge.
THEOREM FreeCountCorrect == Spec => []FreeCounted
<1>1. IInv => FreeCounted
  BY DEF IInv
<1> QED
  BY <1>1, InductiveInvariant, PTL

\* The assertion in the eviction loop holds: the region chosen for a request
\* is big enough for it and has no Locked area.
THEOREM EvictionIsSafe == Spec => []EvictsOnlyRemovable
<1>1. IInv => EvictsOnlyRemovable
  <2> SUFFICES ASSUME IInv, NEW r \in Requests, NEW region \in Regions(r)
               PROVE  /\ region[3] <= region[2] - region[1]
                      /\ \A b \in DOMAIN areas :
                           region[1] <= b /\ b < region[2]
                             => areas[b].state # Locked
    BY DEF EvictsOnlyRemovable
  <2>1. /\ Block(region[1], region[2])
        /\ region[3] \in 1 .. region[2] - region[1]
        /\ \A c \in DOMAIN areas :
             region[1] <= c /\ c < region[2] => areas[c].state # Locked
    BY RegionBlock DEF IInv
  <2> QED
    BY <2>1
<1> QED
  BY <1>1, InductiveInvariant, PTL

\* No allocation, successful or out of memory, disturbs a Locked area.
LEMMA BlockKeepsLocked ==
  ASSUME Layout, NEW lo, NEW hi, Block(lo, hi),
         \A c \in DOMAIN areas : lo <= c /\ c < hi => areas[c].state # Locked,
         NEW n \in 1 .. hi - lo, NEW r \in Requests,
         areas' = Coalesce(lo, hi) \/ areas' = Place(lo, hi, n, r)
  PROVE  Pinned \subseteq Pinned'
<1>1. \A c \in DOMAIN areas : c \in Nat
  BY AreaFacts DEF Layout
<1>2. lo \in Nat /\ hi \in Nat /\ n \in Nat \ {0}
  BY <1>1, PoolAssumption DEF Block
<1>3. SUFFICES ASSUME NEW b \in DOMAIN areas, areas[b].state = Locked
               PROVE  b \in DOMAIN areas' /\ areas'[b] = areas[b]
  BY DEF Pinned
<1>4. b < lo \/ hi <= b
  BY <1>1, <1>2, <1>3
<1>5. b # lo /\ b # hi - n
  BY <1>1, <1>2, <1>4 DEF Block
<1>6. CASE areas' = Coalesce(lo, hi)
  BY <1>1, <1>2, <1>4, <1>5, <1>6 DEF Coalesce
<1>7. CASE areas' = Place(lo, hi, n, r)
  BY <1>4, <1>5, <1>7 DEF Place
<1> QED
  BY <1>6, <1>7

\* No allocation, successful or failing, moves or frees a Locked area: the
\* address a pixmap got from exaOffscreenAlloc stays its own.
THEOREM LockedAreasKept == Spec => LockedKept
<1>1. ASSUME IInv, NEW r \in Requests, OffscreenAlloc(r) \/ AllocNoMemory(r)
      PROVE  Pinned \subseteq Pinned'
  <2>1. PICK region \in Regions(r) :
          \/ areas' = Place(region[1], region[2], region[3], r)
          \/ areas' = Coalesce(region[1], region[2])
    BY <1>1 DEF OffscreenAlloc, AllocIn, AllocNoMemory
  <2> QED
    BY <1>1, <2>1, RegionBlock, BlockKeepsLocked DEF IInv
<1>2. IInv /\ [Next]_vars =>
        [(\E r \in Requests : OffscreenAlloc(r) \/ AllocNoMemory(r))
           => Pinned \subseteq Pinned']_vars
  BY <1>1
<1> QED
  BY <1>2, InductiveInvariant, PTL DEF Spec, LockedKept

-----------------------------------------------------------------------------
(* The driver locks every pixmap it places, and the screen occupies the    *)
(* start of video memory.                                                  *)

DriverUse ==
  /\ OffScreenBase # 0
  /\ \A r \in Requests : r.locked

NoRemovable == \A b \in DOMAIN areas : areas[b].state # Removable

\* A free area that could hold the block counted from its start could also
\* hold it counted from its end.
LEMMA HeadFitIsTailFit ==
  ASSUME TypeOK, NEW b \in DOMAIN areas, NEW r \in Requests, ~ Rejected(r),
         HeadSize(b, r) <= areas[b].size
  PROVE  TailSize(b, r) <= areas[b].size
<1> DEFINE a   == AlignOf(r)
           y   == EndOf(b) - r.size
           pad == IF b % a # 0 THEN a - (b % a) ELSE 0
<1>1. /\ a \in Nat \ {0} /\ r.size \in Nat \ {0}
      /\ b \in Nat /\ areas[b].size \in Nat
      /\ y = b + areas[b].size - r.size
  BY SizeFacts, AreaFacts DEF EndOf
<1>2. /\ HeadSize(b, r) = r.size + pad
      /\ TailSize(b, r) = r.size + CRem(y, a)
  BY DEF HeadSize, TailSize
<1> HIDE DEF a, y, pad
<1>3. pad \in Nat /\ (b + pad) % a = 0
  <2>1. a \in Nat \ {0} /\ b \in Int
    BY <1>1
  <2>2. b % a \in 0 .. a - 1
    BY <2>1, ModRange
  <2>3. CASE b % a = 0
    BY <1>1, <2>3 DEF pad
  <2>4. CASE b % a # 0
    <3>1. (b + (a - (b % a))) % a = 0
      BY <1>1, <2>4, RoundUpMod
    <3>2. pad = a - (b % a)
      BY <2>4 DEF pad
    <3>3. pad \in Nat
      BY <2>1, <2>2, <3>2
    <3> QED
      BY <3>1, <3>2, <3>3
  <2> QED
    BY <2>3, <2>4
<1>4. b + pad <= y /\ y \in Nat
  BY <1>1, <1>2, <1>3
<1>5. b + pad <= y - (y % a)
  BY <1>1, <1>3, <1>4, RoundDownMax
<1>6. CRem(y, a) = y % a /\ y % a \in 0 .. a - 1
  <2>1. a \in Nat \ {0} /\ y \in Nat
    BY <1>1, <1>4
  <2> QED
    BY <2>1, ModRange DEF CRem
<1> QED
  BY <1>1, <1>2, <1>3, <1>5, <1>6

\* Without evictable areas the eviction pass finds nothing.
LEMMA NothingToEvict ==
  ASSUME Layout, NoRemovable, NEW r \in Requests, ~ Rejected(r),
         FitsFree(r) = {}
  PROVE  Evicting(r) = {}
<1>1. SUFFICES ASSUME NEW b \in Candidates(r) PROVE FALSE
  BY DEF Evicting, Cheapest
<1> DEFINE n == HeadSize(b, r)
<1>2. /\ b \in DOMAIN areas
      /\ n \in Nat \ {0}
      /\ b + n <= MemorySize
      /\ \A c \in DOMAIN areas :
           b <= c /\ c < b + n => areas[c].state # Locked
  BY CandidateFacts
<1>3. \A c \in DOMAIN areas :
        /\ c \in Nat /\ EndOf(c) \in Nat /\ c < EndOf(c)
        /\ EndOf(c) = c + areas[c].size /\ areas[c].size \in Nat
        /\ areas[c].state # Locked => c \in FreeAreas
  BY AreaFacts DEF Layout, NoRemovable, States, EndOf
<1> HIDE DEF n
<1>4. b \in FreeAreas
  BY <1>2, <1>3
<1>5. n <= areas[b].size
  <2>1. SUFFICES ASSUME EndOf(b) < b + n PROVE FALSE
    BY <1>2, <1>3
  <2>2. EndOf(b) \in DOMAIN areas
    BY <1>2, <1>3, <2>1, NonEmpty, PoolAssumption DEF Layout, Tiling
  <2>3. EndOf(b) \in FreeAreas
    BY <1>2, <1>3, <2>1, <2>2
  <2> QED
    BY <1>4, <2>3 DEF Layout, NoAdjacentFree
<1>6. TailSize(b, r) <= areas[b].size
  BY <1>2, <1>5, HeadFitIsTailFit DEF Layout, n
<1> QED
  BY <1>4, <1>6 DEF FitsFree

\* A first fit places the block, aligned, at the end of the free area.
LEMMA FirstFitContained ==
  ASSUME TypeOK, OffScreenBase # 0, NEW r \in Requests, ~ Rejected(r),
         NEW b \in FreeAreas, TailSize(b, r) <= areas[b].size
  PROVE  LET at == EndOf(b) - TailSize(b, r)
         IN  /\ RoundUp(at, AlignOf(r)) = at
             /\ at % AlignOf(r) = 0
             /\ at + r.size <= EndOf(b)
<1> DEFINE a  == AlignOf(r)
           e  == EndOf(b)
           y  == e - r.size
           at == e - TailSize(b, r)
<1>1. b \in DOMAIN areas
  BY DEF FreeAreas
<1>2. /\ a \in Nat \ {0} /\ r.size \in Nat \ {0}
      /\ b \in Nat \ {0} /\ e \in Nat /\ y \in Int
      /\ e = b + areas[b].size /\ areas[b].size \in Nat
      /\ TailSize(b, r) \in Nat
      /\ e = y + r.size
  BY <1>1, SizeFacts, AreaFacts, PoolAssumption DEF EndOf
<1>3. TailSize(b, r) = r.size + CRem(y, a)
  BY DEF TailSize
<1> HIDE DEF a, e, y
<1>4. y >= 0
  <2>1. SUFFICES ASSUME y < 0 PROVE FALSE
    BY <1>2
  <2>2. (0 - y) % a \in Nat /\ (0 - y) % a <= 0 - y
    BY <1>2, <2>1
  <2>3. CRem(y, a) = 0 - ((0 - y) % a)
    BY <1>2, <2>1 DEF CRem
  <2>4. e <= TailSize(b, r)
    BY <1>2, <1>3, <2>2, <2>3
  <2> QED
    BY <1>2, <2>4
<1>5. /\ CRem(y, a) = y % a /\ y % a \in 0 .. a - 1
      /\ (y - (y % a)) % a = 0
  BY <1>2, <1>4, RoundDownMod, ModRange DEF CRem
<1>6. at = y - (y % a)
  <2> DEFINE m == y % a
             size == r.size
             tail == TailSize(b, r)
  <2>1. /\ tail = size + m /\ m \in Int /\ size \in Int
        /\ e = y + size /\ y \in Int
    BY <1>2, <1>3, <1>5
  <2> HIDE DEF m, size, tail
  <2>2. e - tail = y - m
    BY <2>1
  <2> QED
    BY <2>2 DEF tail, m
<1>7. at \in Nat
  BY <1>2
<1>8. RoundUp(at, a) = at
  BY <1>2, <1>5, <1>6, <1>7, RoundUpFacts
<1>9. at + r.size <= e
  BY <1>2, <1>5, <1>6
<1> QED
  BY <1>5, <1>6, <1>8, <1>9 DEF a, e

DriverInv == IInv /\ NoRemovable /\ AllocContained

\* In the driver an allocation takes the end of one free area.
LEMMA DriverRegion ==
  ASSUME DriverUse, DriverInv, NEW r \in Requests, NEW region \in Regions(r)
  PROVE  \E b \in FreeAreas : /\ region = <<b, EndOf(b), TailSize(b, r)>>
                              /\ TailSize(b, r) <= areas[b].size
                              /\ ~ Rejected(r)
<1>1. ~ Rejected(r) /\ Layout
  BY DEF Regions, DriverInv, IInv
<1>2. FitsFree(r) # {}
  BY <1>1, NothingToEvict DEF Regions, DriverInv
<1> QED
  BY <1>1, <1>2 DEF Regions, FirstFit, FitsFree

LEMMA DriverAllocShape ==
  ASSUME DriverUse, DriverInv, NEW r \in Requests, OffscreenAlloc(r)
  PROVE  \E b \in FreeAreas, at \in Nat :
           /\ b <= at /\ at < EndOf(b)
           /\ at % AlignOf(r) = 0
           /\ at + r.size <= EndOf(b)
           /\ r.size # 0
           /\ DOMAIN areas' =
                {c \in DOMAIN areas : c < b \/ EndOf(b) <= c} \cup {b, at}
           /\ areas'[at].state = Locked
           /\ areas'[at].offset = at
           /\ areas'[at].align = AlignOf(r)
           /\ areas'[at].want = r.size
           /\ EndOf(at)' = EndOf(b)
           /\ b # at =>
                areas'[b].state = Avail /\ areas'[b].offset = b /\ EndOf(b)' = at
           /\ \A c \in DOMAIN areas' : c # b /\ c # at =>
                c \in DOMAIN areas /\ areas'[c] = areas[c]
                /\ EndOf(c)' = EndOf(c)
<1>1. PICK region \in Regions(r) :
        areas' = Place(region[1], region[2], region[3], r)
  BY DEF OffscreenAlloc, AllocIn
<1>2. Layout
  BY DEF DriverInv, IInv
<1>4. PICK b \in FreeAreas : /\ region = <<b, EndOf(b), TailSize(b, r)>>
                             /\ TailSize(b, r) <= areas[b].size
                             /\ ~ Rejected(r)
  BY DriverRegion
<1>5. /\ b \in FreeAreas /\ b \in DOMAIN areas /\ b \in Nat
      /\ TailSize(b, r) <= areas[b].size
      /\ EndOf(b) \in Nat /\ TailSize(b, r) \in Nat \ {0}
      /\ EndOf(b) = b + areas[b].size /\ areas[b].size \in Nat
  BY <1>2, <1>4, SizeFacts, AreaFacts DEF FreeAreas, Layout, EndOf
<1>6. PICK hi \in Nat, n \in Nat \ {0} :
        hi = EndOf(b) /\ n = TailSize(b, r)
  BY <1>5
<1> DEFINE at == hi - n
<1>7. /\ areas' = Place(b, hi, n, r)
      /\ RoundUp(at, AlignOf(r)) = at
      /\ at % AlignOf(r) = 0
      /\ at + r.size <= hi
  BY <1>1, <1>2, <1>4, <1>5, <1>6, FirstFitContained
  DEF DriverUse, Layout
<1>8. b <= at /\ at < hi /\ at \in Nat
  BY <1>5, <1>6
<1>9. DOMAIN areas' = {c \in DOMAIN areas : c < b \/ hi <= c} \cup {b, at}
  BY <1>7 DEF Place
<1>10. /\ areas'[at].state = Locked
       /\ areas'[at].offset = at
       /\ areas'[at].align = AlignOf(r)
       /\ areas'[at].want = r.size
       /\ EndOf(at)' = hi
  BY <1>5, <1>7, <1>9 DEF Place, DriverUse, EndOf
<1>11. b # at =>
         areas'[b].state = Avail /\ areas'[b].offset = b /\ EndOf(b)' = at
  BY <1>5, <1>7, <1>8, <1>9 DEF Place, Hole, EndOf
<1>12. \A c \in DOMAIN areas' : c # b /\ c # at =>
         c \in DOMAIN areas /\ areas'[c] = areas[c] /\ EndOf(c)' = EndOf(c)
  BY <1>7, <1>9 DEF Place, EndOf
<1>13. r.size # 0
  BY <1>4 DEF Rejected
<1> HIDE DEF at
<1> at \in Nat
  BY <1>8 DEF at
<1> WITNESS b \in FreeAreas
<1> WITNESS at \in Nat
<1> QED
  BY <1>6, <1>7, <1>8, <1>9, <1>10, <1>11, <1>12, <1>13 DEF at

LEMMA DriverAllocStep ==
  ASSUME DriverUse, DriverInv, NEW r \in Requests, OffscreenAlloc(r)
  PROVE  (NoRemovable /\ AllocContained)'
<1>1. PICK b \in FreeAreas, at \in Nat :
           /\ b <= at /\ at < EndOf(b)
           /\ at % AlignOf(r) = 0
           /\ at + r.size <= EndOf(b)
           /\ r.size # 0
           /\ DOMAIN areas' =
                {c \in DOMAIN areas : c < b \/ EndOf(b) <= c} \cup {b, at}
           /\ areas'[at].state = Locked
           /\ areas'[at].offset = at
           /\ areas'[at].align = AlignOf(r)
           /\ areas'[at].want = r.size
           /\ EndOf(at)' = EndOf(b)
           /\ b # at =>
                areas'[b].state = Avail /\ areas'[b].offset = b /\ EndOf(b)' = at
           /\ \A c \in DOMAIN areas' : c # b /\ c # at =>
                c \in DOMAIN areas /\ areas'[c] = areas[c]
                /\ EndOf(c)' = EndOf(c)
  BY DriverAllocShape
<1>2. NoRemovable'
  BY <1>1 DEF NoRemovable, DriverInv, Locked, Avail, Removable
<1>3. Contained(at)'
  BY <1>1 DEF Contained
<1>4. \A c \in DOMAIN areas' : c # b /\ c # at =>
         (c \in Used' <=> c \in Used) /\ (Contained(c)' <=> Contained(c))
  BY <1>1 DEF Used, IsUsed, Contained
<1>5. b # at => b \notin Used'
  BY <1>1 DEF Used, IsUsed
<1> QED
  BY <1>2, <1>3, <1>4, <1>5 DEF AllocContained, Used, DriverInv

LEMMA CoalesceKeepsContained ==
  ASSUME DriverInv, NEW lo, NEW hi, areas' = Coalesce(lo, hi)
  PROVE  (NoRemovable /\ AllocContained)'
<1>1. \A b \in DOMAIN areas' : b # lo =>
        b \in DOMAIN areas /\ areas'[b] = areas[b] /\ EndOf(b)' = EndOf(b)
  BY DEF Coalesce, EndOf
<1>2. lo \in DOMAIN areas' => areas'[lo].state = Avail
  BY DEF Coalesce, Hole
<1> QED
  BY <1>1, <1>2
  DEF DriverInv, NoRemovable, AllocContained, Contained, Used, IsUsed,
      Avail, Removable

LEMMA DriverStep ==
  ASSUME DriverUse
  PROVE  DriverInv /\ [Next]_vars => DriverInv'
<1> SUFFICES ASSUME DriverInv, [Next]_vars
             PROVE  (NoRemovable /\ AllocContained)'
  BY InductiveStep DEF DriverInv
<1>1. CASE OffscreenInit
  <2>1. /\ DOMAIN areas' = {OffScreenBase}
        /\ areas'[OffScreenBase].state = Avail
    BY <1>1 DEF OffscreenInit, Hole
  <2> QED
    BY <2>1 DEF NoRemovable, AllocContained, Used, IsUsed, Avail, Removable
<1>2. ASSUME NEW r \in Requests, OffscreenAlloc(r)
      PROVE  (NoRemovable /\ AllocContained)'
  BY <1>2, DriverAllocStep
<1>3. ASSUME NEW r \in Requests, AllocNoMemory(r)
      PROVE  (NoRemovable /\ AllocContained)'
  BY <1>3, CoalesceKeepsContained DEF AllocNoMemory
<1>4. ASSUME NEW b \in Used, OffscreenFree(b)
      PROVE  (NoRemovable /\ AllocContained)'
  BY <1>4, CoalesceKeepsContained DEF OffscreenFree
<1>5. CASE OffscreenFini \/ OffscreenSwapOut
  BY <1>5 DEF OffscreenFini, OffscreenSwapOut, NoAreas, NoRemovable,
              AllocContained, Used
<1>6. CASE UNCHANGED vars
  BY <1>6 DEF vars, DriverInv, NoRemovable, AllocContained, Contained, Used,
              IsUsed, EndOf
<1> QED
  BY <1>1, <1>2, <1>3, <1>4, <1>5, <1>6 DEF Next

\* Used as the driver uses it, the manager gives every caller the bytes it
\* asked for, at the alignment it asked for, inside the area it returns.
THEOREM AllocationsContained ==
  ASSUME DriverUse
  PROVE  Spec => []AllocContained
<1>1. Init => DriverInv
  BY InductiveInit DEF Init, NoAreas, DriverInv, NoRemovable, AllocContained,
                       Used
<1>2. DriverInv /\ [Next]_vars => DriverInv'
  BY DriverStep
<1>3. DriverInv => AllocContained
  BY DEF DriverInv
<1> QED
  BY <1>1, <1>2, <1>3, PTL DEF Spec

\* Merging keeps the offset of the first of the areas merged.
LEMMA CoalesceKeepsInside ==
  ASSUME Layout, OffsetInside, NEW lo, NEW hi, Block(lo, hi),
         areas' = Coalesce(lo, hi)
  PROVE  OffsetInside'
<1>1. /\ lo \in DOMAIN areas /\ lo \in Nat /\ EndOf(lo) \in Nat
      /\ lo <= areas[lo].offset /\ areas[lo].offset < EndOf(lo)
      /\ areas[lo].offset \in Nat
  BY AreaFacts DEF Block, Layout, OffsetInside, Area
<1>2. hi \in Nat /\ EndOf(lo) <= hi
  <2>1. Tiling /\ TypeOK /\ areas # NoAreas
    BY <1>1, NonEmpty DEF Layout
  <2>2. EndOf(lo) \in DOMAIN areas \cup {MemorySize}
    BY <1>1, <2>1 DEF Tiling
  <2>3. \A c \in DOMAIN areas : c \in Nat /\ c < MemorySize
    BY <2>1, AreaFacts
  <2>4. hi \in DOMAIN areas => EndOf(lo) <= hi
    BY <1>1, <2>1 DEF Block, Tiling
  <2> QED
    BY <2>2, <2>3, <2>4, PoolAssumption DEF Block
<1>3. /\ areas'[lo].offset = areas[lo].offset
      /\ lo \in DOMAIN areas' => EndOf(lo)' = hi
  BY <1>1, <1>2 DEF Coalesce, Hole, EndOf
<1>4. \A c \in DOMAIN areas' : c # lo =>
        c \in DOMAIN areas /\ areas'[c] = areas[c] /\ EndOf(c)' = EndOf(c)
  BY DEF Coalesce, EndOf
<1> QED
  BY <1>1, <1>2, <1>3, <1>4 DEF OffsetInside

LEMMA DriverAllocInside ==
  ASSUME DriverUse, DriverInv, OffsetInside,
         NEW r \in Requests, OffscreenAlloc(r)
  PROVE  OffsetInside'
<1>1. PICK b \in FreeAreas, at \in Nat :
           /\ b <= at /\ at < EndOf(b)
           /\ at % AlignOf(r) = 0
           /\ at + r.size <= EndOf(b)
           /\ r.size # 0
           /\ DOMAIN areas' =
                {c \in DOMAIN areas : c < b \/ EndOf(b) <= c} \cup {b, at}
           /\ areas'[at].state = Locked
           /\ areas'[at].offset = at
           /\ areas'[at].align = AlignOf(r)
           /\ areas'[at].want = r.size
           /\ EndOf(at)' = EndOf(b)
           /\ b # at =>
                areas'[b].state = Avail /\ areas'[b].offset = b /\ EndOf(b)' = at
           /\ \A c \in DOMAIN areas' : c # b /\ c # at =>
                c \in DOMAIN areas /\ areas'[c] = areas[c]
                /\ EndOf(c)' = EndOf(c)
  BY DriverAllocShape
<1>2. b \in Nat
  BY <1>1, AreaFacts DEF FreeAreas, DriverInv, IInv, Layout
<1> QED
  BY <1>1, <1>2 DEF OffsetInside

(***************************************************************************)
(* Used as the driver uses it, the manager never has an area, merged ones  *)
(* included, whose offset lies outside it: what OffscreenValidate asserts. *)
(***************************************************************************)
THEOREM OffsetsInside ==
  ASSUME DriverUse
  PROVE  Spec => []OffsetInside
<1>1. Init => DriverInv /\ OffsetInside
  BY InductiveInit DEF Init, NoAreas, DriverInv, NoRemovable, AllocContained,
                       Used, OffsetInside
<1>2. ASSUME DriverInv, OffsetInside, [Next]_vars
      PROVE  OffsetInside'
  <2>1. Layout
    BY <1>2 DEF DriverInv, IInv
  <2>2. CASE OffscreenInit
    <3>1. /\ DOMAIN areas' = {OffScreenBase}
          /\ areas'[OffScreenBase].offset = OffScreenBase
          /\ EndOf(OffScreenBase)' = OffScreenBase + (MemorySize - OffScreenBase)
      BY <2>2 DEF OffscreenInit, Hole, EndOf
    <3> QED
      BY <3>1, PoolAssumption DEF OffsetInside
  <2>3. ASSUME NEW r \in Requests, OffscreenAlloc(r)
        PROVE  OffsetInside'
    BY <1>2, <2>3, DriverAllocInside
  <2>4. ASSUME NEW r \in Requests, AllocNoMemory(r)
        PROVE  OffsetInside'
    <3>1. PICK region \in Regions(r) :
            areas' = Coalesce(region[1], region[2])
      BY <2>4 DEF AllocNoMemory
    <3>2. PICK b \in FreeAreas : region[1] = b /\ region[2] = EndOf(b)
      BY <1>2, <3>1, DriverRegion
    <3>3. Block(b, EndOf(b))
      <4>1. /\ b \in DOMAIN areas /\ b < EndOf(b)
            /\ \A p \in FreeAreas : p \in DOMAIN areas
        BY <2>1, AreaFacts DEF FreeAreas, Layout
      <4> QED
        BY <2>1, <4>1, NonEmpty DEF Block, Layout, Tiling, NoAdjacentFree
    <3> QED
      BY <1>2, <2>1, <3>1, <3>2, <3>3, CoalesceKeepsInside
  <2>5. ASSUME NEW b \in Used, OffscreenFree(b)
        PROVE  OffsetInside'
    BY <1>2, <2>1, <2>5, FreedBlock, CoalesceKeepsInside DEF OffscreenFree
  <2>6. CASE OffscreenFini \/ OffscreenSwapOut
    BY <2>6 DEF OffscreenFini, OffscreenSwapOut, NoAreas, OffsetInside
  <2>7. CASE UNCHANGED vars
    BY <1>2, <2>7 DEF vars, OffsetInside, EndOf
  <2> QED
    BY <1>2, <2>2, <2>3, <2>4, <2>5, <2>6, <2>7 DEF Next
<1>3. DriverInv /\ OffsetInside /\ [Next]_vars => (DriverInv /\ OffsetInside)'
  BY <1>2, DriverStep
<1> QED
  BY <1>1, <1>3, PTL DEF Spec

-----------------------------------------------------------------------------
(* First and last ones, and sums.  Induction over the natural numbers is   *)
(* had from their well-foundedness: a set of counterexamples has a first.  *)

Below == {ss \in Nat \X Nat : ss[1] < ss[2]}

LEMMA BelowWellFounded == IsWellFoundedOn(Below, Nat)
BY NatLessThanWellFounded DEF OpToRel, Below

\* Any set of numbers has a first one, ...
LEMMA FirstOf ==
  ASSUME NEW T \in SUBSET Nat, T # {}
  PROVE  \E x \in T : \A y \in T : x <= y
<1>1. PICK x \in T : \A y \in T : ~ (<<y, x>> \in Below)
  BY BelowWellFounded, WFMin
<1>2. \A y \in T : ~ (y < x)
  BY <1>1 DEF Below
<1> QED
  BY <1>2

\* ... and a last one if it is bounded.
LEMMA LastOf ==
  ASSUME NEW T \in SUBSET Nat, T # {}, NEW n \in Nat, \A x \in T : x <= n
  PROVE  \E x \in T : \A y \in T : y <= x
<1> DEFINE D == {n - x : x \in T}
<1>1. D \in SUBSET Nat /\ D # {}
  <2>1. \A x \in T : x \in Nat /\ n - x \in Nat
    OBVIOUS
  <2> QED
    BY <2>1
<1>2. PICK d \in D : \A e \in D : d <= e
  BY <1>1, FirstOf
<1>3. PICK x \in T : d = n - x
  OBVIOUS
<1>4. \A y \in T : y \in Nat /\ n - x <= n - y
  BY <1>2, <1>3
<1> HIDE DEF D
<1> QED
  BY <1>4

Some(s) == CHOOSE x \in s : TRUE

\* What a sum over a set unfolds to.
Unfolds(g, w, C) ==
  \A s \in C : g[s] = IF s = {} THEN 0 ELSE w[Some(s)] + g[s \ {Some(s)}]

\* Some function adds the weights up, for every set of them at once.
LEMMA SumExists ==
  ASSUME NEW D, IsFiniteSet(D), NEW w \in [D -> Nat]
  PROVE  \E g \in [SUBSET D -> Nat] : Unfolds(g, w, SUBSET D)
<1> DEFINE C(n) == {s \in SUBSET D : Cardinality(s) <= n}
           Bad  == {n \in Nat : ~ \E g \in [C(n) -> Nat] : Unfolds(g, w, C(n))}
<1>1. \A s \in SUBSET D : IsFiniteSet(s) /\ Cardinality(s) \in Nat
  BY FS_Subset, FS_CardinalityType
<1>2. \A s \in SUBSET D : s # {} =>
        /\ Some(s) \in s /\ s \ {Some(s)} \in SUBSET D
        /\ Cardinality(s \ {Some(s)}) = Cardinality(s) - 1
        /\ Cardinality(s) # 0
  BY <1>1, FS_RemoveElement, FS_EmptySet DEF Some
<1>3. 0 \notin Bad
  <2> DEFINE g == [s \in C(0) |-> 0]
  <2>1. ASSUME NEW s \in C(0) PROVE s = {}
    <3>1. s \in SUBSET D /\ Cardinality(s) = 0
      BY <1>1
    <3> QED
      BY <1>1, <3>1, FS_EmptySet
  <2>2. g \in [C(0) -> Nat] /\ Unfolds(g, w, C(0))
    BY <2>1 DEF Unfolds
  <2> QED
    BY <2>2
<1>4. ASSUME NEW n \in Nat, n \notin Bad PROVE n + 1 \notin Bad
  <2>1. PICK f \in [C(n) -> Nat] : Unfolds(f, w, C(n))
    BY <1>4
  <2> DEFINE g == [s \in C(n + 1) |->
                     IF s \in C(n) THEN f[s]
                     ELSE w[Some(s)] + f[s \ {Some(s)}]]
  <2>2. \A s \in C(n + 1) : s # {} =>
          /\ s \ {Some(s)} \in C(n) /\ w[Some(s)] \in Nat
          /\ s \ {Some(s)} \in C(n + 1)
    BY <1>1, <1>2
  <2>3. \A s \in C(n + 1) : s \notin C(n) => s # {}
    BY FS_EmptySet, <1>1
  <2>4. g \in [C(n + 1) -> Nat]
    BY <2>2, <2>3
  <2>5. \A s \in C(n + 1) : s # {} => g[s \ {Some(s)}] = f[s \ {Some(s)}]
    BY <2>2
  <2>6. ASSUME NEW s \in C(n + 1)
        PROVE g[s] = IF s = {} THEN 0 ELSE w[Some(s)] + g[s \ {Some(s)}]
    <3>1. CASE s \in C(n)
      <4>1. g[s] = f[s]
        BY <2>6, <3>1
      <4> QED
        BY <4>1, <3>1, <2>1, <2>5 DEF Unfolds
    <3>2. CASE s \notin C(n)
      BY <2>3, <2>5, <3>2
    <3> QED
      BY <3>1, <3>2
  <2>7. Unfolds(g, w, C(n + 1))
    BY <2>6 DEF Unfolds
  <2> QED
    BY <2>4, <2>7
<1> HIDE DEF Bad, C
<1>5. Bad = {}
  <2>1. SUFFICES ASSUME Bad # {} PROVE FALSE
    OBVIOUS
  <2>2. Bad \in SUBSET Nat
    BY DEF Bad
  <2>3. PICK n \in Bad : \A m \in Bad : n <= m
    BY <2>1, <2>2, FirstOf
  <2>4. n - 1 \in Nat /\ n - 1 \notin Bad
    BY <1>3, <2>2, <2>3
  <2>5. (n - 1) + 1 \notin Bad
    BY <1>4, <2>4
  <2> QED
    BY <2>2, <2>3, <2>5
<1>6. C(Cardinality(D)) = SUBSET D
  BY FS_Subset, FS_CardinalityType DEF C
<1>7. Cardinality(D) \in Nat /\ Cardinality(D) \notin Bad
  BY <1>5, FS_CardinalityType
<1>8. \E g \in [C(Cardinality(D)) -> Nat] : Unfolds(g, w, C(Cardinality(D)))
  BY <1>7 DEF Bad
<1> QED
  BY <1>6, <1>8

\* Only one does: one function on fewer sets agrees with it.
LEMMA SumUnique ==
  ASSUME NEW D, IsFiniteSet(D), NEW w, NEW S \in SUBSET D,
         NEW f, Unfolds(f, w, SUBSET S),
         NEW g, Unfolds(g, w, SUBSET D)
  PROVE  f[S] = g[S]
<1> DEFINE Bad == {n \in Nat : \E s \in SUBSET S : Cardinality(s) = n /\ f[s] # g[s]}
<1>1. \A s \in SUBSET S : IsFiniteSet(s) /\ Cardinality(s) \in Nat
  BY FS_Subset, FS_CardinalityType
<1>2. SUFFICES ASSUME Bad # {} PROVE FALSE
  BY <1>1
<1>3. PICK n \in Bad : \A m \in Bad : n <= m
  BY <1>2, FirstOf
<1>4. PICK s \in SUBSET S : Cardinality(s) = n /\ f[s] # g[s]
  OBVIOUS
<1>5. s # {}
  BY <1>4 DEF Unfolds
<1> DEFINE t == s \ {Some(s)}
<1>6. Some(s) \in s /\ t \in SUBSET S /\ Cardinality(t) = n - 1 /\ n - 1 \in Nat
  <2>1. Some(s) \in s
    BY <1>5 DEF Some
  <2>2. Cardinality(s) \in Nat /\ Cardinality(s) # 0 /\ IsFiniteSet(s)
    BY <1>1, <1>5, FS_EmptySet
  <2> QED
    <3>1. \A x \in s : Cardinality(s \ {x}) = Cardinality(s) - 1
      BY <2>2, FS_RemoveElement
    <3> QED
      BY <1>4, <2>1, <2>2, <3>1
<1>7. f[t] = g[t]
  BY <1>3, <1>6
<1> QED
  BY <1>4, <1>5, <1>6, <1>7 DEF Unfolds

\* The order in which the weights are added does not matter.
Splits(g, w, C) == \A s \in C : \A y \in s : g[s] = w[y] + g[s \ {y}]

LEMMA SumSplits ==
  ASSUME NEW D, IsFiniteSet(D), NEW w \in [D -> Nat],
         NEW g \in [SUBSET D -> Nat], Unfolds(g, w, SUBSET D)
  PROVE  Splits(g, w, SUBSET D)
<1> DEFINE Bad == {n \in Nat : \E s \in SUBSET D : Cardinality(s) = n /\
                       \E y \in s : g[s] # w[y] + g[s \ {y}]}
<1>1. \A s \in SUBSET D : IsFiniteSet(s) /\ Cardinality(s) \in Nat
  BY FS_Subset, FS_CardinalityType
<1>2. SUFFICES ASSUME Bad # {} PROVE FALSE
  BY <1>1 DEF Splits
<1>3. PICK n \in Bad : \A m \in Bad : n <= m
  BY <1>2, FirstOf
<1>4. PICK s \in SUBSET D :
        Cardinality(s) = n /\ \E y \in s : g[s] # w[y] + g[s \ {y}]
  OBVIOUS
<1> PICK y \in s : g[s] # w[y] + g[s \ {y}]
  BY <1>4
<1> DEFINE x == Some(s)
<1>5. x \in s /\ g[s] = w[x] + g[s \ {x}]
  BY DEF Unfolds, Some
<1>6. x # y
  BY <1>5
<1>7. /\ Cardinality(s \ {x}) = n - 1 /\ Cardinality(s \ {y}) = n - 1
      /\ n - 1 \in Nat
  <2>1. IsFiniteSet(s) /\ Cardinality(s) \in Nat /\ Cardinality(s) = n
    BY <1>1, <1>4
  <2>2. \A z \in s : /\ IsFiniteSet(s \ {z})
                    /\ Cardinality(s \ {z}) = Cardinality(s) - 1
    BY <2>1, FS_RemoveElement
  <2>3. Cardinality(s \ {y}) \in Nat
    BY <2>2, FS_CardinalityType
  <2> QED
    BY <1>5, <2>1, <2>2, <2>3
<1>8. /\ s \ {x} \in SUBSET D /\ s \ {y} \in SUBSET D
      /\ y \in s \ {x} /\ x \in s \ {y} /\ (s \ {x}) \ {y} = (s \ {y}) \ {x}
      /\ (s \ {x}) \ {y} \in SUBSET D /\ y \in D /\ x \in D
  BY <1>5, <1>6
<1>9. n - 1 \notin Bad
  BY <1>3, <1>7
<1> HIDE DEF x
<1>10. /\ g[s \ {x}] = w[y] + g[(s \ {x}) \ {y}]
       /\ g[s \ {y}] = w[x] + g[(s \ {y}) \ {x}]
  BY <1>7, <1>8, <1>9
<1>11. /\ w[x] \in Nat /\ w[y] \in Nat /\ g[(s \ {x}) \ {y}] \in Nat
  BY <1>8
<1>12. s \in SUBSET D /\ g[s] # w[y] + g[s \ {y}]
  OBVIOUS
<1>13. g[s] = w[x] + g[s \ {x}]
  BY <1>5
<1>14. g[(s \ {x}) \ {y}] = g[(s \ {y}) \ {x}]
  BY <1>8
<1>15. g[s] = w[x] + (w[y] + g[(s \ {x}) \ {y}])
  BY <1>10, <1>13
<1>16. w[y] + g[s \ {y}] = w[y] + (w[x] + g[(s \ {x}) \ {y}])
  BY <1>10, <1>14
<1> QED
  BY <1>11, <1>12, <1>15, <1>16

\* What an area contributes to the score of a region, infinity included.
Infinite == ScoreScale * MemorySize + 1

Weights ==
  [c \in DOMAIN areas |->
     IF Age(c) = 0 THEN Infinite
     ELSE areas[c].size * (ScoreScale \div Age(c))]

Total ==
  CHOOSE g \in [SUBSET DOMAIN areas -> Nat] :
    Unfolds(g, Weights, SUBSET DOMAIN areas)

LEMMA WeightFacts ==
  ASSUME TypeOK
  PROVE  /\ IsFiniteSet(DOMAIN areas)
         /\ Weights \in [DOMAIN areas -> Nat]
         /\ \A c \in DOMAIN areas : Age(c) # 0 =>
              Weights[c] <= areas[c].size * ScoreScale
<1>1. IsFiniteSet(DOMAIN areas)
  <2>1. DOMAIN areas \in SUBSET (OffScreenBase .. MemorySize - 1)
    BY DEF TypeOK
  <2>2. IsFiniteSet(OffScreenBase .. MemorySize - 1)
    BY FS_Interval, PoolAssumption
  <2> QED
    BY <2>1, <2>2, FS_Subset
<1>2. Infinite \in Nat
  BY PoolAssumption, CounterAssumption DEF Infinite
<1>3. ASSUME NEW c \in DOMAIN areas, Age(c) # 0
      PROVE  /\ areas[c].size * (ScoreScale \div Age(c)) \in Nat
             /\ areas[c].size * (ScoreScale \div Age(c)) <= areas[c].size * ScoreScale
  <2> DEFINE a == Age(c)
             q == ScoreScale \div a
             z == areas[c].size
  <2>1. a \in Nat \ {0}
    <3>1. /\ offScreenCounter - areas[c].last_use \in Int
          /\ CounterMod \in Nat \ {0}
      BY AreaFacts, CounterAssumption DEF TypeOK, Area
    <3>2. Age(c) \in 0 .. CounterMod - 1
      BY <3>1, ModRange DEF Age
    <3> QED
      BY <1>3, <3>1, <3>2
  <2>2. z \in Nat /\ ScoreScale \in Nat
    BY AreaFacts, CounterAssumption
  <2> HIDE DEF a, z
  <2>3. q \in Nat /\ q <= ScoreScale
    BY <2>1, <2>2
  <2> HIDE DEF q
  <2>4. z * q \in Nat /\ z * q <= z * ScoreScale
    BY <2>2, <2>3
  <2> QED
    BY <2>4 DEF z, q, a
<1>4. Weights \in [DOMAIN areas -> Nat]
  BY <1>2, <1>3 DEF Weights
<1> QED
  BY <1>1, <1>3, <1>4 DEF Weights

LEMMA TotalFacts ==
  ASSUME TypeOK
  PROVE  /\ Total \in [SUBSET DOMAIN areas -> Nat]
         /\ Unfolds(Total, Weights, SUBSET DOMAIN areas)
         /\ Total[{}] = 0
         /\ \A S \in SUBSET DOMAIN areas : \A y \in S :
              Total[S] = Weights[y] + Total[S \ {y}]
<1>1. \E g \in [SUBSET DOMAIN areas -> Nat] :
        Unfolds(g, Weights, SUBSET DOMAIN areas)
  BY WeightFacts, SumExists
<1>2. /\ Total \in [SUBSET DOMAIN areas -> Nat]
      /\ Unfolds(Total, Weights, SUBSET DOMAIN areas)
  BY <1>1 DEF Total
<1>3. Total[{}] = 0
  <2>1. {} \in SUBSET DOMAIN areas
    OBVIOUS
  <2> QED
    BY <1>2, <2>1 DEF Unfolds
<1>4. \A S \in SUBSET DOMAIN areas : \A y \in S :
        Total[S] = Weights[y] + Total[S \ {y}]
  <2>1. Splits(Total, Weights, SUBSET DOMAIN areas)
    BY <1>2, WeightFacts, SumSplits
  <2> QED
    BY <2>1 DEF Splits
<1> QED
  BY <1>2, <1>3, <1>4

\* A candidate's score is the sum of the weights of what is scanned.
LEMMA ScoreIsTotal ==
  ASSUME TypeOK, NEW r, NEW b \in Candidates(r)
  PROVE  /\ Score(b, r) = Total[Span(b, HeadSize(b, r))]
         /\ Score(b, r) \in Nat
<1> DEFINE S == Span(b, HeadSize(b, r))
           F(g) == [s \in SUBSET S |->
                      IF s = {} THEN 0
                      ELSE LET x == CHOOSE x \in s : TRUE
                           IN  areas[x].size * (ScoreScale \div Age(x)) + g[s \ {x}]]
           iter == CHOOSE g : g = F(g)
<1>1. Score(b, r) = iter[S]
  BY DEF Score, MapThenSumSet, MapThenFoldSet
<1>2. S \in SUBSET DOMAIN areas /\ \A c \in S : Age(c) # 0
  BY DEF Candidates, Span
<1> HIDE DEF S
<1>3. \A c \in S : Weights[c] = areas[c].size * (ScoreScale \div Age(c))
  BY <1>2 DEF Weights
<1>4. \A s \in SUBSET S : s # {} =>
        Some(s) \in s /\ s \ {Some(s)} \in SUBSET S /\ Some(s) = CHOOSE x \in s : TRUE
  BY DEF Some
<1>5. \E g : g = F(g)
  <2> DEFINE g == [s \in SUBSET S |-> Total[s]]
  <2>1. \A s \in SUBSET S :
          g[s] = IF s = {} THEN 0
                 ELSE Weights[Some(s)] + g[s \ {Some(s)}]
    BY <1>2, <1>4, TotalFacts DEF Unfolds
  <2>2. \A s \in SUBSET S :
          g[s] = IF s = {} THEN 0
                 ELSE areas[Some(s)].size * (ScoreScale \div Age(Some(s)))
                        + g[s \ {Some(s)}]
    BY <1>3, <1>4, <2>1
  <2> HIDE DEF g
  <2>3. \A s \in SUBSET S : g[s] = F(g)[s]
    BY <2>2 DEF Some
  <2>4. g = F(g)
    BY <2>3 DEF g
  <2> QED
    BY <2>4
<1>6. iter = F(iter)
  BY <1>5
<1> HIDE DEF iter
<1>7. Unfolds(iter, Weights, SUBSET S)
  <2>1. \A s \in SUBSET S :
          iter[s] = IF s = {} THEN 0
                    ELSE areas[Some(s)].size * (ScoreScale \div Age(Some(s)))
                           + iter[s \ {Some(s)}]
    BY <1>6 DEF Some
  <2> QED
    BY <1>3, <1>4, <2>1 DEF Unfolds
<1>8. iter[S] = Total[S]
  BY <1>2, <1>7, WeightFacts, TotalFacts, SumUnique
<1> QED
  BY <1>1, <1>2, <1>8, TotalFacts DEF S

-----------------------------------------------------------------------------
(* A request that there is room for is granted.                            *)

\* A block reckoned from b ends no later than one at a later multiple.
LEMMA HeadEnd ==
  ASSUME NEW b \in Nat, NEW r \in Requests,
         NEW o \in Nat, b <= o, o % AlignOf(r) = 0
  PROVE  b + HeadSize(b, r) <= o + r.size
<1> DEFINE a == AlignOf(r)
           m == b % a
           q == b \div a
           p == o \div a
<1>1. a \in Nat \ {0} /\ r.size \in Nat
  BY RequestAssumption DEF AlignOf
<1>2. HeadSize(b, r) = r.size + (IF m # 0 THEN a - m ELSE 0) /\ o % a = 0
  BY DEF HeadSize
<1> HIDE DEF a
<1>3. /\ q \in Int /\ p \in Int /\ m \in 0 .. a - 1
      /\ b = a * q + m /\ o = a * p + (o % a)
  BY <1>1, DivMod
<1> HIDE DEF m, q, p
<1>4. CASE m = 0
  BY <1>1, <1>2, <1>4
<1>5. CASE m # 0
  <2>1. q + 1 <= p
    <3>1. SUFFICES ASSUME p <= q PROVE FALSE
      BY <1>3
    <3>2. a * p <= a * q
      BY <1>1, <1>3, <3>1
    <3> QED
      BY <1>1, <1>2, <1>3, <1>5, <3>2
  <2>2. a * (q + 1) <= a * p /\ a * (q + 1) = a * q + a
    BY <1>1, <1>3, <2>1
  <2> QED
    BY <1>1, <1>2, <1>3, <1>5, <2>2
<1> QED
  BY <1>4, <1>5

\* A cheapest candidate leads to a region: kicking out can end at the last
\* area, so it ends somewhere first.
LEMMA EvictingFinds ==
  ASSUME Layout, NEW r \in Requests, ~ Rejected(r), Cheapest(r) # {}
  PROVE  Evicting(r) # {}
<1>1. PICK b \in Cheapest(r) : TRUE
  OBVIOUS
<1> DEFINE n  == HeadSize(b, r)
           lo == IF IsFree(b) THEN b ELSE LeftEdge(b)
<1>2. b \in DOMAIN areas /\ n \in Nat \ {0} /\ b + n <= MemorySize
  BY <1>1, CandidateFacts DEF Cheapest
<1>3. \A c \in DOMAIN areas :
        c \in Nat /\ EndOf(c) \in Nat /\ c < EndOf(c) /\ c < MemorySize
  BY AreaFacts DEF Layout
<1>4. lo \in Nat /\ lo <= b
  <2>1. CASE IsFree(b)
    BY <1>2, <1>3, <2>1
  <2>2. CASE ~ IsFree(b)
    <3>1. b \in Used
      BY <1>2, <2>2 DEF Used, IsFree, IsUsed
    <3>2. Block(LeftEdge(b), RightEdge(b)) /\ LeftEdge(b) <= b
      BY <3>1, FreedBlock
    <3> QED
      BY <1>3, <2>2, <3>2 DEF Block
  <2> QED
    BY <2>1, <2>2
<1> HIDE DEF n, lo
<1>5. PICK z \in DOMAIN areas : \A c \in DOMAIN areas : c <= z
  <2>1. DOMAIN areas \in SUBSET Nat /\ DOMAIN areas # {}
        /\ MemorySize \in Nat /\ \A c \in DOMAIN areas : c <= MemorySize
    BY <1>2, <1>3, PoolAssumption
  <2> QED
    BY <2>1, LastOf
<1>6. EndOf(z) = MemorySize
  <2>1. EndOf(z) \in DOMAIN areas \cup {MemorySize}
    BY <1>2, NonEmpty DEF Layout, Tiling
  <2> QED
    BY <1>3, <1>5, <2>1
<1>7. MemorySize \in Stops(b, lo, n)
  <2>1. MemorySize \notin FreeAreas
    BY <1>3 DEF FreeAreas
  <2>2. b <= z /\ n <= MemorySize - lo
    BY <1>2, <1>3, <1>4, <1>5, PoolAssumption
  <2> QED
    BY <1>6, <2>1, <2>2 DEF Stops
<1>8. Stops(b, lo, n) \in SUBSET Nat
  BY <1>3 DEF Stops
<1>9. PICK hi \in Stops(b, lo, n) : \A f \in Stops(b, lo, n) : hi <= f
  BY <1>7, <1>8, FirstOf
<1>10. <<lo, hi, n>> \in Evicting(r)
  BY <1>9 DEF Evicting, lo, n
<1> QED
  BY <1>10

\* Of any candidates there is a cheapest one.
LEMMA CheapestFinds ==
  ASSUME TypeOK, NEW r, Candidates(r) # {}
  PROVE  Cheapest(r) # {}
<1> DEFINE T == {Score(b, r) : b \in Candidates(r)}
<1>1. T \in SUBSET Nat /\ T # {}
  BY ScoreIsTotal
<1>2. PICK x \in T : \A y \in T : x <= y
  BY <1>1, FirstOf
<1>3. PICK b \in Candidates(r) : Score(b, r) = x
  OBVIOUS
<1>4. \A c \in Candidates(r) : Score(b, r) <= Score(c, r)
  BY <1>2, <1>3
<1> QED
  BY <1>4 DEF Cheapest

LEMMA FirstFitFinds ==
  ASSUME TypeOK, NEW r, FitsFree(r) # {}
  PROVE  FirstFit(r) # {}
<1>1. FitsFree(r) \in SUBSET Nat
  BY AreaFacts DEF FitsFree, FreeAreas
<1>2. PICK b \in FitsFree(r) : \A d \in FitsFree(r) : b <= d
  BY <1>1, FirstOf
<1> QED
  BY <1>2 DEF FirstFit

\* The area that an aligned range without locked bytes begins in is a
\* candidate.
LEMMA RoomIsCandidate ==
  ASSUME Layout, areas # NoAreas, NEW r \in Requests, r.size # 0, Room(r),
         \A b \in DOMAIN areas : Age(b) # 0
  PROVE  ~ Rejected(r) /\ Candidates(r) # {}
<1> DEFINE size == r.size
<1>1. PICK o \in OffScreenBase .. MemorySize - size :
        /\ o % AlignOf(r) = 0
        /\ \A b \in Used : areas[b].state = Locked =>
                             EndOf(b) <= o \/ o + size <= b
  BY DEF Room
<1>2. /\ size \in Nat \ {0} /\ o \in Nat
      /\ OffScreenBase <= o /\ o + size <= MemorySize
  BY <1>1, RequestAssumption, PoolAssumption
<1>3. ~ Rejected(r)
  BY <1>2, PoolAssumption DEF Rejected
<1>4. \A c \in DOMAIN areas :
        /\ c \in Nat /\ EndOf(c) \in Nat /\ c < EndOf(c) /\ c < MemorySize
        /\ EndOf(c) \in DOMAIN areas \cup {MemorySize}
        /\ areas[c].state = Locked => c \in Used
  BY AreaFacts DEF Layout, Tiling, Avail, Locked, Used, IsUsed
<1>5. PICK b \in DOMAIN areas :
        b <= o /\ \A d \in DOMAIN areas : d <= o => d <= b
  <2> DEFINE T == {d \in DOMAIN areas : d <= o}
  <2>1. T \in SUBSET Nat /\ T # {} /\ \A x \in T : x <= o
    BY <1>2, <1>4 DEF Layout, Tiling
  <2>2. PICK m \in T : \A x \in T : x <= m
    BY <1>2, <2>1, LastOf
  <2> QED
    BY <2>2
<1>6. HeadSize(b, r) \in Nat /\ b + HeadSize(b, r) <= o + size
  BY <1>1, <1>2, <1>3, <1>4, <1>5, HeadEnd, SizeFacts DEF Layout
<1>7. o < EndOf(b)
  BY <1>2, <1>4, <1>5
<1>8. \A c \in Span(b, HeadSize(b, r)) : areas[c].state # Locked
  <2> SUFFICES ASSUME NEW c \in DOMAIN areas, b <= c,
                      c < b + HeadSize(b, r), areas[c].state = Locked
               PROVE  FALSE
    BY DEF Span
  <2>1. EndOf(c) <= o
    BY <1>1, <1>2, <1>4, <1>6
  <2>2. c < o /\ EndOf(b) <= EndOf(c)
    <3>1. b < c => EndOf(b) <= c
      BY DEF Layout, Tiling
    <3> QED
      BY <1>2, <1>4, <2>1, <3>1
  <2> QED
    BY <1>2, <1>4, <1>7, <2>1, <2>2
<1>9. b + HeadSize(b, r) <= MemorySize
  BY <1>2, <1>4, <1>6, PoolAssumption
<1>10. \A c \in Span(b, HeadSize(b, r)) : Age(c) # 0
  BY DEF Span
<1>11. b \in Candidates(r)
  BY <1>8, <1>9, <1>10 DEF Candidates
<1> QED
  BY <1>3, <1>11

(***************************************************************************)
(* NoSpuriousFailure, whatever is asked for: a request is refused only     *)
(* when no aligned range of its size is free of locked bytes, or when some *)
(* area has age 0.                                                         *)
(***************************************************************************)
THEOREM NeverRefusesInVain == Spec => []NoSpuriousFailure
<1>1. IInv => NoSpuriousFailure
  <2> SUFFICES ASSUME IInv, areas # NoAreas,
                      NEW r \in Requests, r.size # 0, Room(r),
                      \A b \in DOMAIN areas : Age(b) # 0
               PROVE  Regions(r) # {}
    BY DEF NoSpuriousFailure
  <2>1. Layout /\ TypeOK
    BY DEF IInv, Layout
  <2>2. ~ Rejected(r) /\ Candidates(r) # {}
    BY <2>1, RoomIsCandidate
  <2>3. FitsFree(r) # {} => FirstFit(r) # {}
    BY <2>1, FirstFitFinds
  <2>4. Evicting(r) # {}
    BY <2>1, <2>2, CheapestFinds, EvictingFinds
  <2> QED
    BY <2>2, <2>3, <2>4 DEF Regions
<1> QED
  BY <1>1, InductiveInvariant, PTL

\* An aligned range without locked bytes lies in one free area, which first
\* fit finds large enough although it counts from the end.
LEMMA RoomFits ==
  ASSUME IInv, NoRemovable, areas # NoAreas,
         NEW r \in Requests, r.size # 0, Room(r)
  PROVE  ~ Rejected(r) /\ FitsFree(r) # {}
<1> DEFINE size == r.size
           a    == AlignOf(r)
<1>1. PICK o \in OffScreenBase .. MemorySize - size :
        /\ o % a = 0
        /\ \A b \in Used : areas[b].state = Locked =>
                             EndOf(b) <= o \/ o + size <= b
  BY DEF Room
<1>2. /\ size \in Nat \ {0} /\ o \in Nat
      /\ OffScreenBase <= o /\ o + size <= MemorySize
  BY <1>1, RequestAssumption, PoolAssumption
<1>3. ~ Rejected(r)
  BY <1>2, PoolAssumption DEF Rejected
<1>4. a \in Nat \ {0}
  BY RequestAssumption DEF AlignOf
<1> HIDE DEF size, a
<1>5. \A c \in DOMAIN areas :
        /\ c \in Nat /\ EndOf(c) \in Nat /\ c < EndOf(c) /\ c < MemorySize
        /\ EndOf(c) = c + areas[c].size /\ areas[c].size \in Nat
        /\ EndOf(c) \in DOMAIN areas \cup {MemorySize}
        /\ c \in FreeAreas \/ (c \in Used /\ areas[c].state = Locked)
  BY AreaFacts DEF IInv, Layout, NoRemovable, States, EndOf, Tiling
<1>6. PICK c \in DOMAIN areas :
        c <= o /\ \A d \in DOMAIN areas : d <= o => d <= c
  <2> DEFINE T == {d \in DOMAIN areas : d <= o}
  <2>1. T \in SUBSET Nat /\ T # {} /\ \A x \in T : x <= o
    BY <1>2, <1>5 DEF IInv, Layout, Tiling
  <2>2. PICK m \in T : \A x \in T : x <= m
    BY <1>2, <2>1, LastOf
  <2> QED
    BY <2>2
<1>7. o < EndOf(c)
  BY <1>2, <1>5, <1>6
<1>8. c \in FreeAreas
  BY <1>1, <1>2, <1>5, <1>6, <1>7
<1>9. o + size <= EndOf(c)
  <2>1. SUFFICES ASSUME EndOf(c) < o + size PROVE FALSE
    BY <1>2, <1>5
  <2>2. EndOf(c) \in DOMAIN areas
    BY <1>2, <1>5, <2>1
  <2>3. EndOf(c) \notin FreeAreas
    BY <1>8 DEF IInv, Layout, NoAdjacentFree
  <2>4. EndOf(EndOf(c)) <= o \/ o + size <= EndOf(c)
    BY <1>1, <1>5, <2>2, <2>3
  <2> QED
    BY <1>2, <1>5, <1>7, <2>1, <2>2, <2>4
<1>10. TailSize(c, r) <= areas[c].size
  <2> DEFINE y == EndOf(c) - size
  <2>1. y \in Nat /\ o <= y /\ EndOf(c) = y + size
    BY <1>2, <1>5, <1>9
  <2>2. TailSize(c, r) = size + CRem(y, a)
    BY DEF TailSize, size, a
  <2> HIDE DEF y
  <2>3. CRem(y, a) = y % a /\ y % a \in 0 .. a - 1
    <3>1. a \in Nat \ {0} /\ y \in Nat
      BY <1>4, <2>1
    <3> QED
      BY <3>1, ModRange DEF CRem
  <2>4. o <= y - (y % a)
    BY <1>1, <1>2, <1>4, <2>1, RoundDownMax
  <2> QED
    BY <1>2, <1>5, <1>6, <2>1, <2>2, <2>3, <2>4
<1> QED
  BY <1>3, <1>8, <1>10 DEF FitsFree

(***************************************************************************)
(* Used as the driver uses it, the manager never refuses a request that    *)
(* there is room for, whatever the ages: nothing is ever evicted.          *)
(***************************************************************************)
NeverRefused ==
  \A r \in Requests :
    areas # NoAreas /\ r.size # 0 /\ Room(r) => FirstFit(r) # {} /\ ~ Rejected(r)

THEOREM DriverNeverRefused ==
  ASSUME DriverUse
  PROVE  Spec => []NeverRefused
<1>1. Init => DriverInv
  BY InductiveInit DEF Init, NoAreas, DriverInv, NoRemovable,
                       AllocContained, Used
<1>2. DriverInv /\ [Next]_vars => DriverInv'
  BY DriverStep
<1>3. DriverInv => NeverRefused
  <2> SUFFICES ASSUME DriverInv, areas # NoAreas,
                      NEW r \in Requests, r.size # 0, Room(r)
               PROVE  FirstFit(r) # {} /\ ~ Rejected(r)
    BY DEF NeverRefused
  <2>1. ~ Rejected(r) /\ FitsFree(r) # {}
    BY RoomFits DEF DriverInv
  <2> QED
    BY <2>1, FirstFitFinds DEF DriverInv, IInv, Layout
<1> QED
  BY <1>1, <1>2, <1>3, PTL DEF Spec

-----------------------------------------------------------------------------
(***************************************************************************)
(* Every step of the offscreen manager, used as the driver uses it, is a   *)
(* step of OffscreenPool or a stutter.                                     *)
(***************************************************************************)
Held == {BlockOf(b) : b \in Used}

\* Blocks of size 0 would not tell two areas apart.
RefInv == DriverInv /\ \A b \in Used : areas[b].want # 0

LEMMA UsedFacts ==
  ASSUME RefInv, NEW b \in Used
  PROVE  /\ b \in DOMAIN areas /\ b \in Nat /\ b \notin FreeAreas
         /\ areas[b].offset \in Nat
         /\ areas[b].want \in Nat \ {0}
         /\ OffScreenBase <= b /\ b <= areas[b].offset
         /\ areas[b].offset + areas[b].want <= EndOf(b)
         /\ EndOf(b) \in Nat /\ EndOf(b) <= MemorySize
<1>1. /\ TypeOK /\ Tiling /\ Contained(b) /\ b \in DOMAIN areas
      /\ areas[b].want # 0
  BY DEF RefInv, DriverInv, IInv, Layout, AllocContained, Used
<1>2. /\ areas[b] \in Area /\ EndOf(b) \in Nat /\ b \notin FreeAreas
      /\ b \in Nat /\ OffScreenBase <= b
  BY <1>1, AreaFacts
<1>3. \A c \in DOMAIN areas : c \in Nat /\ c < MemorySize
  BY <1>1, AreaFacts
<1>4. EndOf(b) <= MemorySize
  BY <1>1, <1>3, NonEmpty, PoolAssumption DEF Tiling
<1> QED
  BY <1>1, <1>2, <1>4 DEF Contained, Area

\* Different areas in use give blocks that are apart, hence different.
LEMMA BlocksApart ==
  ASSUME RefInv, NEW b \in Used, NEW c \in Used, b # c
  PROVE  /\ Pool!Apart(BlockOf(b), BlockOf(c))
         /\ BlockOf(b) # BlockOf(c)
<1>1. Tiling /\ areas # NoAreas
  BY UsedFacts, NonEmpty DEF RefInv, DriverInv, IInv, Layout
<1>2. EndOf(b) <= c \/ EndOf(c) <= b
  BY <1>1, UsedFacts DEF Tiling
<1>3. \/ areas[b].offset + areas[b].want <= areas[c].offset
      \/ areas[c].offset + areas[c].want <= areas[b].offset
  BY <1>2, UsedFacts
<1>4. areas[b].offset # areas[c].offset
  BY <1>3, UsedFacts
<1> QED
  BY <1>3, <1>4 DEF Pool!Apart, BlockOf

\* Merging free areas changes no block.
LEMMA CoalesceFreeKeepsHeld ==
  ASSUME RefInv, NEW lo \in DOMAIN areas, NEW hi,
         \A c \in DOMAIN areas : lo <= c /\ c < hi => c \in FreeAreas,
         lo < hi, hi \in Nat,
         areas' = Coalesce(lo, hi)
  PROVE  Used' = Used /\ Held' = Held
<1>1. \A c \in DOMAIN areas : c \in Nat
  BY AreaFacts DEF RefInv, DriverInv, IInv, Layout
<1>2. DOMAIN areas' = {c \in DOMAIN areas : c <= lo \/ hi <= c}
  BY DEF Coalesce
<1>3. areas'[lo].state = Avail /\ lo \in FreeAreas
  BY <1>1 DEF Coalesce, Hole
<1>4. \A c \in DOMAIN areas' : c # lo => areas'[c] = areas[c]
  BY DEF Coalesce
<1>5. Used' = Used
  BY <1>1, <1>2, <1>3, <1>4 DEF Used, IsUsed, FreeAreas, IsFree
<1> QED
  BY <1>3, <1>4, <1>5 DEF Held, BlockOf, Used, IsUsed, FreeAreas, IsFree

LEMMA AllocGrants ==
  ASSUME DriverUse, RefInv, NEW r \in Requests, OffscreenAlloc(r)
  PROVE  /\ \E a \in Pool!Grantable(r) : Pool!Grant(r, a)
         /\ (\A b \in Used : areas[b].want # 0)'
<1>1. DriverInv /\ Tiling /\ TypeOK
  BY DEF RefInv, DriverInv, IInv, Layout
<1>2. PICK b \in FreeAreas, at \in Nat :
        /\ b <= at /\ at < EndOf(b)
        /\ at % AlignOf(r) = 0
        /\ at + r.size <= EndOf(b)
        /\ r.size # 0
        /\ DOMAIN areas' =
             {c \in DOMAIN areas : c < b \/ EndOf(b) <= c} \cup {b, at}
        /\ areas'[at].state = Locked
        /\ areas'[at].offset = at
        /\ areas'[at].align = AlignOf(r)
        /\ areas'[at].want = r.size
        /\ EndOf(at)' = EndOf(b)
        /\ b # at =>
             areas'[b].state = Avail /\ areas'[b].offset = b /\ EndOf(b)' = at
        /\ \A c \in DOMAIN areas' : c # b /\ c # at =>
             c \in DOMAIN areas /\ areas'[c] = areas[c]
             /\ EndOf(c)' = EndOf(c)
  BY <1>1, DriverAllocShape
<1>3. /\ b \in DOMAIN areas /\ b \in Nat /\ OffScreenBase <= b
      /\ EndOf(b) \in Nat /\ b < EndOf(b) /\ b \notin Used
  BY <1>1, AreaFacts DEF FreeAreas
<1>4. \A c \in DOMAIN areas : c \in Nat /\ c < MemorySize
  BY <1>1, AreaFacts
<1>5. areas # NoAreas /\ areas' # NoAreas
  BY <1>1, <1>2, <1>3, NonEmpty DEF NoAreas
<1>6. EndOf(b) <= MemorySize
  BY <1>1, <1>3, <1>4, <1>5, PoolAssumption DEF Tiling
<1>7. \A c \in DOMAIN areas : c # b => c < b \/ EndOf(b) <= c
  BY <1>1, <1>3, <1>4, <1>5 DEF Tiling
<1>8. Used' = Used \cup {at}
  <2>1. at \in Used'
    BY <1>2 DEF Used, IsUsed, Locked, Avail
  <2>2. b # at => b \notin Used'
    BY <1>2 DEF Used, IsUsed
  <2>3. \A c \in Used : c \in DOMAIN areas' /\ c # b /\ c # at
    BY <1>2, <1>3, <1>4, <1>7 DEF Used
  <2>4. \A c : c # b /\ c # at => (c \in Used' <=> c \in Used)
    BY <1>2, <2>3 DEF Used, IsUsed
  <2> QED
    BY <2>1, <2>2, <2>3, <2>4
<1>9. \A c \in Used : areas'[c] = areas[c]
  <2>1. \A c \in Used : c \in DOMAIN areas' /\ c # b /\ c # at
    BY <1>2, <1>3, <1>4, <1>7 DEF Used
  <2> QED
    BY <1>2, <2>1
<1> DEFINE a == [lo |-> at, size |-> r.size]
<1>10. Held' = Held \cup {a}
  BY <1>2, <1>8, <1>9 DEF Held, BlockOf
<1>11. r.size \in Nat
  BY RequestAssumption
<1>12. \A c \in Used : Pool!Apart(a, BlockOf(c))
  <2> SUFFICES ASSUME NEW c \in Used PROVE Pool!Apart(a, BlockOf(c))
    OBVIOUS
  <2>1. EndOf(c) <= b \/ EndOf(b) <= c
    BY <1>1, <1>3, <1>5, UsedFacts DEF Tiling
  <2>2. \/ at + r.size <= areas[c].offset
        \/ areas[c].offset + areas[c].want <= at
    BY <1>2, <1>3, <1>11, <2>1, UsedFacts
  <2> QED
    BY <2>2 DEF Pool!Apart, BlockOf
<1>13. a \in Pool!Grantable(r)
  <2>1. at \in OffScreenBase .. MemorySize /\ at + r.size <= MemorySize
    BY <1>2, <1>3, <1>6, <1>11, PoolAssumption
  <2>2. at % Pool!Alignment(r) = 0
    BY <1>2 DEF Pool!Alignment, AlignOf
  <2> QED
    BY <1>12, <2>1, <2>2 DEF Pool!Grantable
<1>14. Pool!Grant(r, a)
  BY <1>2, <1>5, <1>10, <1>13 DEF Pool!Grant, Held
<1>15. \A c \in Used' : areas'[c].want # 0
  BY <1>2, <1>8, <1>9 DEF RefInv
<1> QED
  BY <1>13, <1>14, <1>15

LEMMA NoMemoryStutters ==
  ASSUME DriverUse, RefInv, NEW r \in Requests, AllocNoMemory(r)
  PROVE  /\ Used' = Used /\ Held' = Held
         /\ areas # NoAreas /\ areas' # NoAreas
<1>1. PICK region \in Regions(r) : areas' = Coalesce(region[1], region[2])
  BY DEF AllocNoMemory
<1>2. PICK b \in FreeAreas : region = <<b, EndOf(b), TailSize(b, r)>>
  BY DriverRegion DEF RefInv
<1>3. Layout
  BY DEF RefInv, DriverInv, IInv
<1>4. /\ b \in DOMAIN areas /\ b \in Nat /\ EndOf(b) \in Nat
      /\ b < EndOf(b) /\ areas # NoAreas
  BY <1>3, AreaFacts, NonEmpty DEF FreeAreas, Layout
<1>5. \A c \in DOMAIN areas : b <= c /\ c < EndOf(b) => c \in FreeAreas
  <2>1. \A c \in DOMAIN areas : c \in Nat /\ EndOf(c) \in Nat
    BY <1>3, AreaFacts DEF Layout
  <2> QED
    BY <1>3, <1>4, <2>1 DEF Layout, Tiling
<1>6. areas' = Coalesce(b, EndOf(b))
  BY <1>1, <1>2
<1>7. b \in DOMAIN areas'
  BY <1>4, <1>6 DEF Coalesce
<1> QED
  BY <1>4, <1>5, <1>6, <1>7, CoalesceFreeKeepsHeld DEF NoAreas

LEMMA FreeReleases ==
  ASSUME RefInv, NEW b \in Used, OffscreenFree(b)
  PROVE  /\ Pool!Release(BlockOf(b))
         /\ (\A c \in Used : areas[c].want # 0)'
<1>1. Layout
  BY DEF RefInv, DriverInv, IInv
<1>2. PICK lo, hi :
        /\ areas' = Coalesce(lo, hi)
        /\ Block(lo, hi) /\ lo <= b /\ EndOf(b) <= hi
        /\ \A c \in DOMAIN areas : lo <= c /\ c < hi => c = b \/ c \in FreeAreas
  BY <1>1, FreedBlock DEF OffscreenFree
<1>3. \A c \in DOMAIN areas : c \in Nat
  BY <1>1, AreaFacts DEF Layout
<1>4. lo \in DOMAIN areas /\ lo \in Nat /\ hi \in Nat /\ lo < hi
  BY <1>2, <1>3, PoolAssumption DEF Block
<1>5. /\ b \in DOMAIN areas /\ b \in Nat /\ EndOf(b) \in Nat /\ b < EndOf(b)
      /\ \A c \in FreeAreas : c \notin Used
  BY <1>1, AreaFacts DEF Layout, Used, FreeAreas
<1>6. DOMAIN areas' = {c \in DOMAIN areas : c <= lo \/ hi <= c}
  BY <1>2 DEF Coalesce
<1>7. areas'[lo].state = Avail /\ lo \notin Used \ {b}
  BY <1>2, <1>3, <1>4, <1>5 DEF Coalesce, Hole
<1>8. \A c \in DOMAIN areas' : c # lo => areas'[c] = areas[c]
  BY <1>2 DEF Coalesce
<1>9. Used' = Used \ {b}
  <2>1. \A c \in Used \ {b} : c \in DOMAIN areas' /\ c # lo
    BY <1>2, <1>3, <1>4, <1>5, <1>6, <1>7 DEF Used
  <2>2. b \notin Used'
    BY <1>2, <1>4, <1>5, <1>6, <1>7 DEF Used, IsUsed
  <2>3. lo \notin Used'
    BY <1>7 DEF Used, IsUsed
  <2> QED
    BY <1>6, <1>8, <2>1, <2>2, <2>3 DEF Used, IsUsed
<1>10. \A c \in Used' : areas'[c] = areas[c] /\ BlockOf(c)' = BlockOf(c)
  BY <1>7, <1>8, <1>9 DEF Used, IsUsed, BlockOf
<1>11. \A c \in Used : c # b => BlockOf(c) # BlockOf(b)
  BY BlocksApart
<1>12. Held' = Held \ {BlockOf(b)}
  BY <1>9, <1>10, <1>11 DEF Held
<1>13. areas # NoAreas /\ areas' # NoAreas
  <2>1. lo \in DOMAIN areas'
    BY <1>4, <1>6
  <2> QED
    BY <1>4, <2>1 DEF NoAreas
<1>14. Pool!Release(BlockOf(b))
  BY <1>12, <1>13 DEF Pool!Release, Held
<1> QED
  BY <1>9, <1>10, <1>14 DEF RefInv

\* Every step is a step of the pool or leaves its variables alone.
LEMMA RefinementStep ==
  ASSUME DriverUse, RefInv, [Next]_vars
  PROVE  [Pool!PoolNext]_(Pool!poolVars) /\ RefInv'
<1>1. DriverInv'
  BY DriverStep DEF RefInv
<1>2. CASE OffscreenInit
  <2>1. Used = {} /\ Used' = {} /\ areas = NoAreas /\ areas' # NoAreas
    <3>1. /\ DOMAIN areas' = {OffScreenBase}
          /\ areas'[OffScreenBase].state = Avail
      BY <1>2 DEF OffscreenInit, Hole
    <3>2. DOMAIN areas = {} /\ areas = NoAreas
      BY <1>2 DEF OffscreenInit, NoAreas
    <3>3. areas' # NoAreas
      BY <3>1 DEF NoAreas
    <3> QED
      BY <3>1, <3>2, <3>3 DEF Used, IsUsed
  <2>2. Pool!Open
    BY <2>1 DEF Pool!Open
  <2> QED
    BY <1>1, <2>1, <2>2 DEF Pool!PoolNext, RefInv
<1>3. ASSUME NEW r \in Requests, OffscreenAlloc(r)
      PROVE  [Pool!PoolNext]_(Pool!poolVars) /\ RefInv'
  BY <1>1, <1>3, AllocGrants DEF Pool!PoolNext, RefInv
<1>4. ASSUME NEW r \in Requests, AllocNoMemory(r)
      PROVE  [Pool!PoolNext]_(Pool!poolVars) /\ RefInv'
  <2>1. /\ Used' = Used /\ Held' = Held
        /\ areas # NoAreas /\ areas' # NoAreas
    BY <1>4, NoMemoryStutters
  <2>2. \A b \in Used' : areas'[b].want # 0
    <3>1. PICK lo, hi : areas' = Coalesce(lo, hi)
      BY <1>4 DEF AllocNoMemory
    <3>2. \A b \in Used' : areas'[b] = areas[b]
      BY <3>1 DEF Coalesce, Hole, Used, IsUsed
    <3> QED
      BY <2>1, <3>2 DEF RefInv
  <2> QED
    BY <1>1, <2>1, <2>2 DEF Pool!poolVars, Held, RefInv
<1>5. ASSUME NEW b \in Used, OffscreenFree(b)
      PROVE  [Pool!PoolNext]_(Pool!poolVars) /\ RefInv'
  <2>1. Pool!Release(BlockOf(b)) /\ (\A c \in Used : areas[c].want # 0)'
    BY <1>5, FreeReleases DEF RefInv
  <2>2. BlockOf(b) \in Held
    BY DEF Held
  <2> QED
    BY <1>1, <2>1, <2>2 DEF Pool!PoolNext, Held, RefInv
<1>6. CASE OffscreenFini \/ OffscreenSwapOut
  <2>1. Used' = {} /\ areas # NoAreas /\ areas' = NoAreas
    BY <1>6 DEF OffscreenFini, OffscreenSwapOut, NoAreas, Used
  <2>2. Pool!Close
    BY <2>1 DEF Pool!Close
  <2> QED
    BY <1>1, <2>1, <2>2 DEF Pool!PoolNext, RefInv
<1>7. CASE UNCHANGED vars
  BY <1>1, <1>7 DEF vars, Pool!poolVars, BlockOf, Used, IsUsed, RefInv
<1> QED
  BY <1>2, <1>3, <1>4, <1>5, <1>6, <1>7 DEF Next

\* The offscreen manager, called as the driver calls it, hands out aligned
\* blocks inside the pool that never overlap, keeps them in place until they
\* are freed, and loses none but by OffscreenFini or OffscreenSwapOut.
THEOREM ManagerImplementsPool ==
  ASSUME DriverUse
  PROVE  Spec => ImplementsPool
<1>1. Init => RefInv /\ Pool!PoolInit
  <2>1. Init => DriverInv
    BY InductiveInit DEF Init, NoAreas, DriverInv, NoRemovable,
                         AllocContained, Used
  <2>2. Init => Used = {} /\ areas = NoAreas
    BY DEF Init, NoAreas, Used
  <2> QED
    BY <2>1, <2>2 DEF RefInv, Pool!PoolInit
<1>2. RefInv /\ [Next]_vars => RefInv' /\ [Pool!PoolNext]_(Pool!poolVars)
  BY RefinementStep
<1> QED
  BY <1>1, <1>2, PTL DEF Spec, ImplementsPool, Pool!PoolSpec
=============================================================================
