-------------------------- MODULE ExaPixmaps_proofs --------------------------
(***************************************************************************)
(* Proofs about ExaPixmaps, for every memory, tile size and alignment.     *)
(***************************************************************************)
EXTENDS ExaPixmaps, TLAPS

-----------------------------------------------------------------------------
(* Division, products and rounding. *)

LEMMA DivMod ==
  ASSUME NEW y \in Nat, NEW a \in Nat \ {0}
  PROVE  /\ y \div a \in Nat
         /\ y % a \in 0 .. a - 1
         /\ y = a * (y \div a) + (y % a)
OBVIOUS

LEMMA MultipleDiv ==
  ASSUME NEW q \in Nat, NEW a \in Nat \ {0}
  PROVE  (a * q) \div a = q /\ (a * q) % a = 0
OBVIOUS

LEMMA ProductNat ==
  ASSUME NEW m \in Nat, NEW n \in Nat
  PROVE  m * n \in Nat
OBVIOUS

LEMMA ProductMonotone ==
  ASSUME NEW m \in Nat, NEW n \in Nat, NEW k \in Nat, m <= n
  PROVE  k * m <= n * k
<1>1. PICK d \in Nat : n = m + d
  BY n - m \in Nat
<1>2. n * k = k * m + d * k
  BY <1>1
<1> QED
  BY <1>2, ProductNat

LEMMA MultipleTimes ==
  ASSUME NEW x \in Nat, NEW m \in Nat, NEW a \in Nat \ {0}, x % a = 0
  PROVE  (m * x) % a = 0
<1> DEFINE q == x \div a
<1>1. q \in Nat /\ x = a * q
  BY DivMod
<1> HIDE DEF q
<1>2. m * x = a * (m * q) /\ m * q \in Nat
  BY <1>1
<1> QED
  BY <1>2, MultipleDiv

LEMMA MultipleSum ==
  ASSUME NEW x \in Nat, NEW y \in Nat, NEW a \in Nat \ {0}, x % a = 0, y % a = 0
  PROVE  (x + y) % a = 0
<1> DEFINE p == x \div a
           q == y \div a
<1>1. p \in Nat /\ q \in Nat /\ x = a * p /\ y = a * q
  BY DivMod
<1> HIDE DEF p, q
<1>2. x + y = a * (p + q) /\ p + q \in Nat
  BY <1>1
<1> QED
  BY <1>2, MultipleDiv

\* Rounding up gives a multiple that is not smaller.
LEMMA RoundUpFacts ==
  ASSUME NEW x \in Nat, NEW a \in Nat \ {0}
  PROVE  /\ RoundUp(x, a) \in Nat
         /\ x <= RoundUp(x, a)
         /\ \E k \in Nat : RoundUp(x, a) = a * k
<1> DEFINE y == x + a - 1
           q == y \div a
           r == y % a
<1>1. y \in Nat
  OBVIOUS
<1>2. q \in Nat /\ r \in 0 .. a - 1 /\ y = a * q + r
  BY <1>1, DivMod
<1>3. RoundUp(x, a) = y - r
  BY DEF RoundUp
<1>4. y = x + (a - 1)
  OBVIOUS
<1> HIDE DEF y, q, r
<1>5. RoundUp(x, a) = a * q
  <2>1. a * q \in Nat
    BY <1>2, ProductNat
  <2> QED
    BY <1>1, <1>2, <1>3, <2>1
<1>6. x <= RoundUp(x, a)
  BY <1>1, <1>2, <1>3, <1>4
<1>7. RoundUp(x, a) \in Nat
  BY <1>2, <1>5, ProductNat
<1> QED
  BY <1>2, <1>5, <1>6, <1>7

\* What an int keeps of a product that is at most IntRange.
LEMMA Truncated ==
  ASSUME NEW n \in Nat, n <= IntRange, n % IntRange # 0
  PROVE  n % IntRange = n
<1>1. IntRange \in Nat \ {0}
  BY AlignAssumption
<1>2. CASE n = IntRange
  BY <1>1, <1>2, MultipleDiv
<1>3. CASE n < IntRange
  BY <1>1, <1>3
<1> QED
  BY <1>1, <1>2, <1>3

-----------------------------------------------------------------------------
(* Sizes and pitches of a shape. *)

LEMMA SystemPitchNat ==
  ASSUME NEW width \in Nat, NEW bpp \in Nat
  PROVE  SystemPitch(width, bpp) \in Nat
<1>1. width * bpp + 31 \in Nat
  BY ProductNat
<1>2. (width * bpp + 31) \div 32 \in Nat
  BY <1>1, DivMod
<1> QED
  BY <1>2 DEF SystemPitch

\* The pitch of a shape is that of a row of tiles so many times.
LEMMA GpuPitchFacts ==
  ASSUME NEW s \in Shapes, s.bitsPerPixel >= 8
  PROVE  GpuPitch(s) \in Nat /\ GpuPitch(s) % PitchAlign = 0
<1>1. /\ s.width \in Nat /\ s.bitsPerPixel \in Nat
      /\ Tile \in Nat \ {0} /\ PitchAlign \in Nat \ {0}
      /\ (Tile * s.bitsPerPixel) % 8 = 0
      /\ ((Tile * s.bitsPerPixel) \div 8) % PitchAlign = 0
  BY AlignAssumption, ArgumentAssumption
<1>2. PICK k \in Nat : RoundUp(s.width, Tile) = Tile * k
  BY <1>1, RoundUpFacts
<1> DEFINE row == Tile * s.bitsPerPixel
           t   == row \div 8
<1>3. row \in Nat /\ row % 8 = 0 /\ t % PitchAlign = 0
  BY <1>1, ProductNat
<1>4. RoundUp(s.width, Tile) * s.bitsPerPixel = k * row
  BY <1>1, <1>2
<1> HIDE DEF row
<1>5. t \in Nat /\ row = 8 * t
  BY <1>3
<1> HIDE DEF t
<1>6. k * row = 8 * (k * t) /\ k * t \in Nat
  BY <1>2, <1>5, ProductNat
<1>7. GpuPitch(s) = k * t
  BY <1>4, <1>6, MultipleDiv DEF GpuPitch
<1>8. (k * t) % PitchAlign = 0
  BY <1>1, <1>2, <1>3, <1>5, MultipleTimes
<1> QED
  BY <1>6, <1>7, <1>8

\* A size that the manager does not refuse is that of the whole tiles.
LEMMA GpuBytesFacts ==
  ASSUME NEW s \in Shapes, s.bitsPerPixel >= 8
  PROVE  /\ GpuBytes(s) \in Nat
         /\ GpuBytes(s) # 0 => GpuBytes(s) = RoundUp(s.height, Tile) * GpuPitch(s)
<1>1. s.height \in Nat /\ Tile \in Nat \ {0} /\ IntRange \in Nat \ {0}
  BY AlignAssumption, ArgumentAssumption
<1> DEFINE n == RoundUp(s.height, Tile) * GpuPitch(s)
<1>2. n \in Nat
  BY <1>1, RoundUpFacts, GpuPitchFacts, ProductNat
<1>3. n <= IntRange
  BY SizeAssumption
<1>4. GpuBytes(s) = n % IntRange
  BY DEF GpuBytes
<1> HIDE DEF n
<1>5. n % IntRange \in Nat
  BY <1>1, <1>2, DivMod
<1>6. n % IntRange # 0 => n % IntRange = n
  BY <1>2, <1>3, Truncated
<1> QED
  BY <1>4, <1>5, <1>6 DEF n

-----------------------------------------------------------------------------
(* The inductive invariant. *)

HeldInside ==
  \A a \in held :
    a.size # 0 /\ OffScreenBase <= a.lo /\ a.lo + a.size <= MemorySize

HeldApart == \A a, b \in held : a # b => Pool!Apart(a, b)

\* A pixmap with an area is as CreatePixmap2 made it.
Placed(rec) ==
  \E s \in Shapes :
    /\ s.bitsPerPixel >= 8
    /\ rec = NewRecord(s, GpuPitch(s), MemoryBase + rec.area.lo, TRUE,
                       MemPhysBase + rec.area.lo, rec.area, Null)
    /\ rec.area.size = RoundUp(s.height, Tile) * GpuPitch(s)
    /\ rec.area.lo % OffsetAlign = 0

AllPlaced == \A p \in Owners : Placed(pixmaps[p])

Consistent(rec) ==
  IF InVideo(rec.ptr)
  THEN rec.canAccel /\ rec.gpuAddr = Physical(rec.ptr)
  ELSE ~ rec.canAccel

AllConsistent == \A p \in Live : Consistent(pixmaps[p])

PixInv ==
  /\ PixTypeOK
  /\ HeldInside
  /\ HeldApart
  /\ NothingLeaks
  /\ AllPlaced
  /\ AllConsistent

\* A block the manager grants is new, inside the pool and apart from the others.
LEMMA GrantedFacts ==
  ASSUME PixInv, NEW s \in Shapes, s.bitsPerPixel >= 8,
         NEW a \in Pool!Grantable(GpuRequest(s)), Pool!Grant(GpuRequest(s), a)
  PROVE  /\ held' = held \cup {a} /\ ready' = ready
         /\ a \in [lo : Nat, size : Nat] /\ a # NoArea
         /\ a.size = RoundUp(s.height, Tile) * GpuPitch(s)
         /\ a.lo % OffsetAlign = 0
         /\ a.size # 0 /\ OffScreenBase <= a.lo /\ a.lo + a.size <= MemorySize
         /\ \A b \in held : Pool!Apart(a, b)
         /\ a \notin held
<1>1. /\ OffScreenBase \in Nat /\ MemorySize \in Nat /\ OffsetAlign \in Nat \ {0}
      /\ GpuBytes(s) \in Nat
  BY MemoryAssumption, AlignAssumption, GpuBytesFacts
<1>2. /\ GpuRequest(s).size = GpuBytes(s) /\ GpuRequest(s).size # 0
      /\ Pool!Alignment(GpuRequest(s)) = OffsetAlign
  BY <1>1 DEF GpuRequest, Pool!Grant, Pool!Alignment
<1>3. /\ a \in [lo : OffScreenBase .. MemorySize, size : {GpuBytes(s)}]
      /\ a.lo % OffsetAlign = 0 /\ a.lo + a.size <= MemorySize
      /\ \A b \in held : Pool!Apart(a, b)
  BY <1>2 DEF Pool!Grantable
<1>4. a \in [lo : Nat, size : Nat] /\ a.size = GpuBytes(s) /\ OffScreenBase <= a.lo
  BY <1>1, <1>3
<1>5. a.size # 0 /\ a.size = RoundUp(s.height, Tile) * GpuPitch(s)
  BY <1>2, <1>4, GpuBytesFacts
<1>6. a # NoArea
  BY <1>5 DEF NoArea
<1>7. a \notin held
  BY <1>3, <1>4, <1>5 DEF Pool!Apart
<1> QED
  BY <1>3, <1>4, <1>5, <1>6, <1>7 DEF Pool!Grant

\* Adding a pixmap without an area keeps the invariant.
LEMMA AddOutside ==
  ASSUME PixInv, NEW p \in Pixmaps \ Live, NEW rec \in Record,
         rec.area = NoArea, Consistent(rec), Add(p, rec), UNCHANGED <<held, ready>>
  PROVE  PixInv'
<1>1. /\ Live' = Live \cup {p}
      /\ pixmaps' \in [Live' -> Record]
      /\ pixmaps'[p] = rec /\ \A q \in Live : pixmaps'[q] = pixmaps[q]
  BY DEF PixInv, PixTypeOK, Add, Live
<1>2. Owners' = Owners
  BY <1>1 DEF Owners, Live
<1>3. \A q \in Owners : q \in Live
  BY DEF Owners
<1>4. PixTypeOK'
  BY <1>1 DEF PixInv, PixTypeOK, Live
<1>5. HeldInside' /\ HeldApart'
  BY DEF PixInv, HeldInside, HeldApart, Pool!Apart
<1>6. NothingLeaks'
  BY <1>1, <1>2, <1>3 DEF PixInv, NothingLeaks
<1>7. AllPlaced'
  BY <1>1, <1>2, <1>3 DEF PixInv, AllPlaced, Placed, NewRecord
<1>8. AllConsistent'
  BY <1>1 DEF PixInv, AllConsistent, Consistent
<1> QED
  BY <1>4, <1>5, <1>6, <1>7, <1>8 DEF PixInv

LEMMA CreateInVideoStep ==
  ASSUME PixInv, NEW p \in Pixmaps \ Live, NEW s \in Shapes, CreateInVideo(p, s)
  PROVE  PixInv'
<1>1. s.bitsPerPixel >= 8 /\ s \in [width : Nat, height : Nat, bitsPerPixel : Nat]
  BY ArgumentAssumption DEF CreateInVideo
<1>2. PICK a \in Pool!Grantable(GpuRequest(s)) :
        /\ Pool!Grant(GpuRequest(s), a)
        /\ Add(p, NewRecord(s, GpuPitch(s), MemoryBase + a.lo, TRUE,
                            MemPhysBase + a.lo, a, Null))
  BY DEF CreateInVideo
<1> DEFINE rec == NewRecord(s, GpuPitch(s), MemoryBase + a.lo, TRUE,
                            MemPhysBase + a.lo, a, Null)
<1>3. /\ held' = held \cup {a} /\ ready' = ready
      /\ a \in [lo : Nat, size : Nat] /\ a # NoArea
      /\ a.size = RoundUp(s.height, Tile) * GpuPitch(s)
      /\ a.lo % OffsetAlign = 0
      /\ a.size # 0 /\ OffScreenBase <= a.lo /\ a.lo + a.size <= MemorySize
      /\ \A b \in held : Pool!Apart(a, b)
      /\ a \notin held
  BY <1>1, <1>2, GrantedFacts
<1>4. MemoryBase \in Nat \ {0} /\ MemPhysBase \in Nat \ {0} /\ MemorySize \in Nat
  BY MemoryAssumption
<1>5. a.lo < MemorySize
  BY <1>3, <1>4
<1>6. rec \in Record
  BY <1>1, <1>3, <1>4, <1>5, GpuPitchFacts DEF NewRecord, Record, Null
<1>7. /\ Live' = Live \cup {p}
      /\ pixmaps' \in [Live' -> Record]
      /\ pixmaps'[p] = rec /\ \A q \in Live : pixmaps'[q] = pixmaps[q]
  BY <1>2, <1>6 DEF PixInv, PixTypeOK, Add, Live
<1>8. rec.area = a
  BY DEF NewRecord
<1>9. Owners' = Owners \cup {p} /\ p \notin Owners /\ \A q \in Owners : q \in Live
  BY <1>3, <1>7, <1>8 DEF Owners, Live
<1>10. PixTypeOK'
  BY <1>3, <1>7 DEF PixInv, PixTypeOK, Live
<1>11. HeldInside'
  BY <1>3 DEF PixInv, HeldInside
<1>12. HeldApart'
  BY <1>3 DEF PixInv, HeldApart, Pool!Apart
<1>13. NothingLeaks'
  <2>1. pixmaps'[p].area = a /\ p \notin Owners
    BY <1>7, <1>8, <1>9
  <2>2. \A q \in Owners : pixmaps'[q].area = pixmaps[q].area /\ pixmaps[q].area \in held
    BY <1>7, <1>9 DEF PixInv, NothingLeaks
  <2>3. held' = {pixmaps'[q].area : q \in Owners'}
    BY <1>3, <1>9, <2>1, <2>2 DEF PixInv, NothingLeaks
  <2>4. \A q, r \in Owners' : pixmaps'[q].area = pixmaps'[r].area => q = r
    BY <1>3, <1>9, <2>1, <2>2 DEF PixInv, NothingLeaks
  <2> QED
    BY <2>3, <2>4 DEF NothingLeaks
<1>14. AllPlaced'
  <2>1. Placed(rec)
    BY <1>1, <1>3, <1>8 DEF Placed, NewRecord
  <2> QED
    BY <2>1, <1>7, <1>9 DEF PixInv, AllPlaced, Placed
<1>15. AllConsistent'
  <2>1. Consistent(rec)
    BY <1>3, <1>4, <1>5 DEF Consistent, InVideo, Physical, NewRecord
  <2> QED
    BY <2>1, <1>7 DEF PixInv, AllConsistent, Consistent
<1> QED
  BY <1>10, <1>11, <1>12, <1>13, <1>14, <1>15 DEF PixInv

LEMMA CreateStep ==
  ASSUME PixInv, NEW p \in Pixmaps, NEW s \in Shapes, CreatePixmap2(p, s)
  PROVE  PixInv'
<1>1. p \in Pixmaps \ Live /\ s \in [width : Nat, height : Nat, bitsPerPixel : Nat]
  BY ArgumentAssumption DEF CreatePixmap2
<1>2. MemoryBase \in Nat \ {0} /\ MemorySize \in Nat /\ NoArea \in [lo : Nat, size : Nat]
  BY MemoryAssumption DEF NoArea
<1>3. CASE CreateHeader(p, s)
  <2> DEFINE rec == NewRecord(s, 0, Null, FALSE, Null, NoArea, Null)
  <2>1. rec \in Record /\ rec.area = NoArea
    BY <1>1, <1>2 DEF NewRecord, Record, Null
  <2>2. Consistent(rec)
    BY <1>2 DEF Consistent, InVideo, NewRecord, Null
  <2> QED
    BY <1>1, <1>3, <2>1, <2>2, AddOutside DEF CreateHeader
<1>4. CASE CreateInVideo(p, s)
  BY <1>1, <1>4, CreateInVideoStep
<1>5. CASE CreateInSystem(p, s)
  <2>1. PICK a \in Heap :
          Add(p, NewRecord(s, SystemPitch(s.width, s.bitsPerPixel), a, FALSE,
                           Null, NoArea, a))
    BY <1>5 DEF CreateInSystem
  <2> DEFINE rec == NewRecord(s, SystemPitch(s.width, s.bitsPerPixel), a, FALSE,
                              Null, NoArea, a)
  <2>2. a \in Nat /\ a \notin MemoryBase .. MemoryBase + MemorySize - 1
    BY MemoryAssumption
  <2>3. SystemPitch(s.width, s.bitsPerPixel) \in Nat
    BY <1>1, SystemPitchNat
  <2>4. rec \in Record /\ rec.area = NoArea
    BY <1>1, <1>2, <2>2, <2>3 DEF NewRecord, Record, Null
  <2>5. Consistent(rec)
    BY <1>2, <2>2 DEF Consistent, InVideo, NewRecord
  <2> QED
    BY <1>1, <1>5, <2>1, <2>4, <2>5, AddOutside DEF CreateInSystem
<1> QED
  BY <1>3, <1>4, <1>5 DEF CreatePixmap2

LEMMA DestroyStep ==
  ASSUME PixInv, NEW p \in Live, DestroyPixmap(p)
  PROVE  PixInv'
<1>1. /\ Live' = Live \ {p}
      /\ \A q \in Live' : pixmaps'[q] = pixmaps[q]
      /\ pixmaps' \in [Live' -> Record]
  BY DEF PixInv, PixTypeOK, DestroyPixmap, Remove, Live
<1>2. Owners' = Owners \ {p} /\ \A q \in Owners : q \in Live
  BY <1>1 DEF Owners, Live
<1>3. \/ p \notin Owners /\ held' = held
      \/ p \in Owners /\ held' = held \ {pixmaps[p].area}
  BY DEF DestroyPixmap, Pool!Release, Owners
<1>4. ready' = ready
  BY DEF DestroyPixmap, Pool!Release
<1>5. PixTypeOK'
  BY <1>1, <1>3, <1>4 DEF PixInv, PixTypeOK, Live
<1>6. HeldInside' /\ HeldApart'
  BY <1>3 DEF PixInv, HeldInside, HeldApart, Pool!Apart
<1>7. NothingLeaks'
  BY <1>1, <1>2, <1>3 DEF PixInv, NothingLeaks
<1>8. AllPlaced'
  BY <1>1, <1>2 DEF PixInv, AllPlaced, Placed
<1>9. AllConsistent'
  BY <1>1 DEF PixInv, AllConsistent, Consistent
<1> QED
  BY <1>5, <1>6, <1>7, <1>8, <1>9 DEF PixInv

LEMMA ModifyStep ==
  ASSUME PixInv, NEW p \in Live, NEW s \in NewShapes, NEW devKind \in DevKinds,
         NEW data \in PixData \cup {Null}, ModifyPixmapHeader(p, s, devKind, data)
  PROVE  PixInv'
<1> DEFINE rec == Modified(pixmaps[p], s, devKind, data)
<1>1. /\ pixmaps[p] \in Record /\ pixmaps[p].area = NoArea
      /\ pixmaps' = [pixmaps EXCEPT ![p] = rec]
      /\ held' = held /\ ready' = ready
  BY DEF PixInv, PixTypeOK, ModifyPixmapHeader
<1>2. /\ s \in [width : Nat, height : Nat, bitsPerPixel : Nat]
      /\ devKind \in Nat /\ data \in Nat
  BY ArgumentAssumption DEF Null
<1>3. MemoryBase \in Nat \ {0} /\ MemPhysBase \in Nat \ {0} /\ MemorySize \in Nat
  BY MemoryAssumption
<1>4. rec \in Record /\ rec.area = NoArea
  <2> DEFINE width == Given(s.width, pixmaps[p].width)
             bpp   == Given(s.bitsPerPixel, pixmaps[p].bitsPerPixel)
  <2>1. width \in Nat /\ bpp \in Nat /\ Given(s.height, pixmaps[p].height) \in Nat
    BY <1>1, <1>2 DEF Given, Record
  <2>2. SystemPitch(width, bpp) \in Nat
    BY <2>1, SystemPitchNat
  <2>3. rec.pitchBytes \in Nat
    BY <1>1, <1>2, <2>2 DEF Modified, Given, Record
  <2>4. rec.canAccel \in BOOLEAN
    BY <1>1 DEF Modified, Accelerated, InVideo, Record
  <2>5. rec.gpuAddr \in {Null} \cup MemPhysBase .. MemPhysBase + MemorySize - 1
    BY <1>1, <1>2, <1>3 DEF Modified, InVideo, Physical, Record
  <2>6. rec.ptr \in Nat
    BY <1>1, <1>2 DEF Modified, Given, Record
  <2> QED
    BY <1>1, <2>1, <2>3, <2>4, <2>5, <2>6 DEF Modified, Record
<1>5. Consistent(rec)
  <2>1. Consistent(pixmaps[p])
    BY DEF PixInv, AllConsistent
  <2>2. CASE data = Null
    BY <2>1, <2>2 DEF Modified, Consistent, Accelerated, Given, Null
  <2>3. CASE data # Null
    BY <1>2, <2>3 DEF Modified, Consistent, Accelerated, Given, Null
  <2> QED
    BY <2>2, <2>3
<1> HIDE DEF rec
<1>6. /\ Live' = Live /\ pixmaps' \in [Live' -> Record]
      /\ pixmaps'[p] = rec /\ \A q \in Live \ {p} : pixmaps'[q] = pixmaps[q]
  BY <1>1, <1>4 DEF PixInv, PixTypeOK, Live
<1>7. Owners' = Owners /\ p \notin Owners /\ \A q \in Owners : q \in Live
  BY <1>1, <1>4, <1>6 DEF Owners, Live
<1>8. PixTypeOK'
  BY <1>1, <1>6 DEF PixInv, PixTypeOK, Live
<1>9. HeldInside' /\ HeldApart' /\ NothingLeaks'
  BY <1>1, <1>6, <1>7 DEF PixInv, HeldInside, HeldApart, Pool!Apart, NothingLeaks
<1>10. AllPlaced'
  BY <1>6, <1>7 DEF PixInv, AllPlaced, Placed
<1>11. AllConsistent'
  BY <1>5, <1>6 DEF PixInv, AllConsistent, Consistent
<1> QED
  BY <1>8, <1>9, <1>10, <1>11 DEF PixInv

\* The invariant is inductive: one step per action.
LEMMA InitPixInv == ASSUME PixInit PROVE PixInv
<1>1. Live = {} /\ Owners = {} /\ held = {} /\ ready = FALSE
  BY DEF PixInit, Pool!PoolInit, Live, Owners
<1> QED
  BY <1>1 DEF PixInit, PixInv, PixTypeOK, HeldInside, HeldApart, NothingLeaks, AllPlaced,
              AllConsistent, Live

\* What the invariant says of the pixmaps stays true while they do not change.
LEMMA SamePixmaps ==
  ASSUME PixInv, UNCHANGED pixmaps, held' = held, ready' \in BOOLEAN
  PROVE  PixInv'
<1>1. Live' = Live /\ Owners' = Owners
  BY DEF Live, Owners
<1>2. PixTypeOK' /\ HeldInside' /\ HeldApart'
  BY <1>1 DEF PixInv, PixTypeOK, HeldInside, HeldApart, Pool!Apart
<1>3. NothingLeaks' /\ AllPlaced' /\ AllConsistent'
  BY <1>1 DEF PixInv, NothingLeaks, AllPlaced, Placed, AllConsistent, Consistent
<1> QED
  BY <1>2, <1>3 DEF PixInv

LEMMA NextPixInv == ASSUME PixInv, [PixNext]_pixVars PROVE PixInv'
<1>1. CASE ScreenInit
  BY <1>1, SamePixmaps DEF ScreenInit, Pool!Open
<1>2. CASE CloseScreen
  <2>1. held = {} /\ held' = {} /\ ready' = FALSE /\ UNCHANGED pixmaps
    BY <1>2 DEF CloseScreen, Pool!Close, PixInv, NothingLeaks
  <2> QED
    BY <2>1, SamePixmaps
<1>3. CASE Create
  BY <1>3, CreateStep DEF Create
<1>4. CASE Modify
  BY <1>4, ModifyStep DEF Modify
<1>5. CASE \E p \in Live : DestroyPixmap(p)
  BY <1>5, DestroyStep
<1>6. CASE UNCHANGED pixVars
  BY <1>6, SamePixmaps DEF pixVars, PixInv, PixTypeOK
<1> QED
  BY <1>1, <1>2, <1>3, <1>4, <1>5, <1>6 DEF PixNext

(***************************************************************************)
(* The records and the blocks held fit each other in every reachable       *)
(* state, for all memories, shapes and arguments.                          *)
(***************************************************************************)
THEOREM PixInductive == PixSpec => []PixInv
<1> QED
  BY InitPixInv, NextPixInv, PTL DEF PixSpec

(***************************************************************************)
(* PixTypeOK: sizes, pitches and addresses are what they are meant to be;  *)
(* a GPU address is always one in video memory.                            *)
(***************************************************************************)
THEOREM PixTypeCorrect == PixSpec => []PixTypeOK
<1>1. PixInv => PixTypeOK
  BY DEF PixInv
<1> QED
  BY <1>1, PixInductive, PTL

(***************************************************************************)
(* AddressesAgree: however a header is re-pointed, the address told to     *)
(* clients and the GPU is that of the byte the server draws.               *)
(***************************************************************************)
THEOREM AddressesAlwaysAgree == PixSpec => []AddressesAgree
<1>1. PixInv => AddressesAgree
  <2> SUFFICES ASSUME PixInv, NEW p \in Live PROVE Agrees(p)
    BY DEF AddressesAgree
  <2>1. Consistent(pixmaps[p])
    BY DEF PixInv, AllConsistent
  <2>2. pixmaps[p].canAccel \in BOOLEAN
    BY DEF PixInv, PixTypeOK, Record
  <2> QED
    BY <2>1, <2>2 DEF Agrees, Consistent, Reply, Answer
<1> QED
  BY <1>1, PixInductive, PTL

(***************************************************************************)
(* NothingLeaks: the manager's areas are those of the live pixmaps.        *)
(***************************************************************************)
THEOREM NoAreaLeaks == PixSpec => []NothingLeaks
<1>1. PixInv => NothingLeaks
  BY DEF PixInv
<1> QED
  BY <1>1, PixInductive, PTL

\* What a pixmap with an area was made of.
LEMMA PlacedFacts ==
  ASSUME PixInv, NEW p \in Owners
  PROVE  /\ pixmaps[p].area \in held /\ p \in Live
         /\ pixmaps[p].area \in [lo : Nat, size : Nat]
         /\ OffScreenBase <= pixmaps[p].area.lo
         /\ pixmaps[p].area.lo + pixmaps[p].area.size <= MemorySize
         /\ pixmaps[p].area.lo % OffsetAlign = 0
         /\ pixmaps[p].ptr = MemoryBase + pixmaps[p].area.lo
         /\ pixmaps[p].gpuAddr = MemPhysBase + pixmaps[p].area.lo
         /\ pixmaps[p].canAccel = TRUE
         /\ pixmaps[p].height \in Nat /\ pixmaps[p].pitchBytes \in Nat
         /\ pixmaps[p].pitchBytes % PitchAlign = 0
         /\ pixmaps[p].area.size
              = RoundUp(pixmaps[p].height, Tile) * pixmaps[p].pitchBytes
<1>1. pixmaps[p].area \in held /\ p \in Live
  BY DEF PixInv, NothingLeaks, Owners
<1>2. pixmaps[p].area \in [lo : Nat, size : Nat] /\ pixmaps[p].height \in Nat
  BY <1>1 DEF PixInv, PixTypeOK, Record
<1>3. PICK s \in Shapes :
        /\ s.bitsPerPixel >= 8
        /\ pixmaps[p] = NewRecord(s, GpuPitch(s), MemoryBase + pixmaps[p].area.lo,
                                  TRUE, MemPhysBase + pixmaps[p].area.lo,
                                  pixmaps[p].area, Null)
        /\ pixmaps[p].area.size = RoundUp(s.height, Tile) * GpuPitch(s)
        /\ pixmaps[p].area.lo % OffsetAlign = 0
  BY DEF PixInv, AllPlaced, Placed
<1>4. GpuPitch(s) \in Nat /\ GpuPitch(s) % PitchAlign = 0
  BY <1>3, GpuPitchFacts
<1> DEFINE a == pixmaps[p].area
<1>5. /\ pixmaps[p].ptr = MemoryBase + a.lo
      /\ pixmaps[p].gpuAddr = MemPhysBase + a.lo
      /\ pixmaps[p].canAccel = TRUE
      /\ pixmaps[p].pitchBytes = GpuPitch(s)
      /\ pixmaps[p].height = s.height
  BY <1>3 DEF NewRecord
<1>6. OffScreenBase <= a.lo /\ a.lo + a.size <= MemorySize
  BY <1>1 DEF PixInv, HeldInside
<1> QED
  BY <1>1, <1>2, <1>3, <1>4, <1>5, <1>6

(***************************************************************************)
(* TilesInside: whole tiles of a placed pixmap lie inside its area, the    *)
(* sizes that overflow an int included, which are refused.                 *)
(***************************************************************************)
THEOREM TilesAlwaysInside == PixSpec => []TilesInside
<1>1. PixInv => TilesInside
  <2> SUFFICES ASSUME PixInv, NEW p \in Owners
               PROVE  /\ MemoryBase + pixmaps[p].area.lo <= pixmaps[p].ptr
                      /\ pixmaps[p].ptr
                           + RoundUp(pixmaps[p].height, Tile) * pixmaps[p].pitchBytes
                         <= MemoryBase + pixmaps[p].area.lo + pixmaps[p].area.size
    BY DEF TilesInside
  <2> DEFINE n == RoundUp(pixmaps[p].height, Tile) * pixmaps[p].pitchBytes
             a == pixmaps[p].area
  <2>1. a.lo \in Nat /\ a.size \in Nat /\ a.size = n /\ pixmaps[p].ptr = MemoryBase + a.lo
    BY PlacedFacts
  <2>2. MemoryBase \in Nat
    BY MemoryAssumption
  <2> HIDE DEF n, a
  <2>3. /\ MemoryBase + a.lo <= pixmaps[p].ptr
        /\ pixmaps[p].ptr + n <= MemoryBase + a.lo + a.size
    BY <2>1, <2>2
  <2> QED
    BY <2>3 DEF n, a
<1> QED
  BY <1>1, PixInductive, PTL

(***************************************************************************)
(* PlacedIsUsable: of what CreatePixmap2 placed in video memory the GPU    *)
(* refuses nothing but a pitch above its limit.                            *)
(***************************************************************************)
THEOREM PlacedAlwaysUsable == PixSpec => []PlacedIsUsable
<1>1. PixInv => PlacedIsUsable
  <2> SUFFICES ASSUME PixInv, NEW p \in Owners, pixmaps[p].pitchBytes <= MaxPitch
               PROVE  CanAccelerateRectangles(pixmaps[p])
    BY DEF PlacedIsUsable
  <2>1. /\ OffsetAlign \in Nat \ {0} /\ MemPhysBase \in Nat
        /\ MemPhysBase % OffsetAlign = 0
    BY MemoryAssumption, AlignAssumption
  <2>2. /\ pixmaps[p].area.lo \in Nat /\ pixmaps[p].area.lo % OffsetAlign = 0
        /\ pixmaps[p].gpuAddr = MemPhysBase + pixmaps[p].area.lo
        /\ pixmaps[p].canAccel = TRUE /\ pixmaps[p].pitchBytes % PitchAlign = 0
    BY PlacedFacts
  <2>3. pixmaps[p].gpuAddr % OffsetAlign = 0
    BY <2>1, <2>2, MultipleSum
  <2> QED
    BY <2>2, <2>3 DEF CanAccelerateRectangles
<1> QED
  BY <1>1, PixInductive, PTL

(***************************************************************************)
(* ClientsApart: a client that keeps to the pitch and height of the pixmap *)
(* it was told the address of reaches no other pixmap and not the screen.  *)
(***************************************************************************)
THEOREM ClientsAlwaysApart == PixSpec => []ClientsApart
<1>1. ASSUME PixInv, NEW p \in Owners
      PROVE  Told(p) \subseteq MemPhysBase + pixmaps[p].area.lo ..
                       MemPhysBase + pixmaps[p].area.lo + pixmaps[p].area.size - 1
  <2> DEFINE h == pixmaps[p].height
             w == pixmaps[p].pitchBytes
             a == pixmaps[p].area
  <2>1. /\ Reply(p).pixmapPhysAddr = MemPhysBase + a.lo
        /\ Reply(p).pixmapPitch = w
        /\ a.lo \in Nat /\ a.size \in Nat /\ h \in Nat /\ w \in Nat
        /\ a.size = RoundUp(h, Tile) * w
    BY <1>1, PlacedFacts DEF Reply, Answer
  <2>2. w * h <= a.size /\ w * h \in Nat
    <3>1. h <= RoundUp(h, Tile) /\ RoundUp(h, Tile) \in Nat
      BY <2>1, AlignAssumption, RoundUpFacts
    <3>2. w \in Nat /\ h \in Nat /\ a.size = RoundUp(h, Tile) * w
      BY <2>1
    <3> HIDE DEF h, w, a
    <3>3. w * h <= RoundUp(h, Tile) * w
      BY <3>1, <3>2, ProductMonotone
    <3>4. w * h \in Nat
      BY <3>2, ProductNat
    <3> QED
      BY <3>2, <3>3, <3>4
  <2>3. Told(p) = MemPhysBase + a.lo .. MemPhysBase + a.lo + w * h - 1
    BY <2>1 DEF Told
  <2>4. MemPhysBase \in Nat
    BY MemoryAssumption
  <2> DEFINE n == w * h
  <2>5. n <= a.size /\ n \in Nat /\ Told(p) = MemPhysBase + a.lo .. MemPhysBase + a.lo + n - 1
    BY <2>2, <2>3
  <2> HIDE DEF n
  <2> QED
    BY <2>1, <2>4, <2>5
<1>2. PixInv => ClientsApart
  <2> SUFFICES ASSUME PixInv, NEW p \in Owners
               PROVE  /\ Told(p) \subseteq MemPhysBase + OffScreenBase ..
                                           MemPhysBase + MemorySize - 1
                      /\ \A q \in Owners \ {p} : Told(p) \cap Told(q) = {}
    BY DEF ClientsApart
  <2>1. MemPhysBase \in Nat /\ OffScreenBase \in Nat /\ MemorySize \in Nat
    BY MemoryAssumption
  <2>2. Told(p) \subseteq MemPhysBase + OffScreenBase .. MemPhysBase + MemorySize - 1
    <3> DEFINE a == pixmaps[p].area
    <3>1. /\ a.lo \in Nat /\ a.size \in Nat
          /\ OffScreenBase <= a.lo /\ a.lo + a.size <= MemorySize
      BY PlacedFacts
    <3>2. Told(p) \subseteq MemPhysBase + a.lo .. MemPhysBase + a.lo + a.size - 1
      BY <1>1
    <3> HIDE DEF a
    <3> QED
      BY <2>1, <3>1, <3>2
  <2>3. ASSUME NEW q \in Owners \ {p} PROVE Told(p) \cap Told(q) = {}
    <3>1. Pool!Apart(pixmaps[p].area, pixmaps[q].area)
      <4>1. pixmaps[p].area # pixmaps[q].area
        BY <2>3 DEF PixInv, NothingLeaks
      <4> QED
        BY <4>1, PlacedFacts DEF PixInv, HeldApart
    <3>2. /\ pixmaps[p].area \in [lo : Nat, size : Nat]
          /\ pixmaps[q].area \in [lo : Nat, size : Nat]
      BY PlacedFacts
    <3> QED
      BY <1>1, <2>1, <3>1, <3>2 DEF Pool!Apart
  <2> QED
    BY <2>2, <2>3
<1> QED
  BY <1>2, PixInductive, PTL
=============================================================================
