------------------------------ MODULE ExaPixmaps ------------------------------
(***************************************************************************)
(* The pixmaps of the driver: the EXA callbacks of src/src/imx_exa_z160.c  *)
(* that create, re-point and destroy a pixmap, the checks that let the GPU *)
(* work on one, and the physical address that the X extension of           *)
(* src/src/imx_ext.c tells a client.                                       *)
(*                                                                         *)
(* Memory for pixmaps comes from the offscreen manager, known here only by *)
(* its promise, OffscreenPool, or from the heap.  Addresses are numbers:   *)
(* the server sees video memory from MemoryBase on, the GPU and the        *)
(* clients see the same bytes from MemPhysBase on.                         *)
(***************************************************************************)
EXTENDS Integers, FiniteSets

CONSTANTS
  Pixmaps,        \* names for pixmaps
  MemoryBase,     \* exaDriverPtr->memoryBase
  MemorySize,     \* exaDriverPtr->memorySize
  OffScreenBase,  \* exaDriverPtr->offScreenBase
  MemPhysBase,    \* pScrn->memPhysBase
  Heap,           \* addresses xnfalloc returns
  Tile,           \* 32: GPU width and height alignment, in pixels
  OffsetAlign,    \* Z160_ALIGN_OFFSET
  PitchAlign,     \* Z160_ALIGN_PITCH
  MaxPitch,       \* Z160_MAX_PITCH_BYTES
  IntRange,       \* numbers that an int tells apart (2^32)
  Shapes,         \* [width, height, bitsPerPixel] passed to CreatePixmap2
  NewShapes,      \* the same for ModifyPixmapHeader, 0 for unchanged
  DevKinds,       \* pitches passed to ModifyPixmapHeader, 0 for none
  PixData         \* addresses passed to ModifyPixmapHeader

Null == 0

ASSUME MemoryAssumption ==
  /\ MemoryBase \in Nat \ {0}
  /\ MemPhysBase \in Nat \ {0}
  /\ OffScreenBase \in Nat
  /\ MemorySize \in Nat
  /\ OffScreenBase < MemorySize
  /\ Heap \subseteq Nat \ (MemoryBase .. MemoryBase + MemorySize - 1)
  /\ Null \notin Heap

\* Video memory starts on a page, and a row of tiles is a whole number of
\* the units that the GPU wants a pitch in.
ASSUME AlignAssumption ==
  /\ Tile \in Nat \ {0}
  /\ OffsetAlign \in Nat \ {0}
  /\ PitchAlign \in Nat \ {0}
  /\ MaxPitch \in Nat
  /\ IntRange \in Nat \ {0}
  /\ MemPhysBase % OffsetAlign = 0
  /\ \A s \in Shapes : s.bitsPerPixel >= 8 =>
       /\ (Tile * s.bitsPerPixel) % 8 = 0
       /\ ((Tile * s.bitsPerPixel) \div 8) % PitchAlign = 0

ASSUME ArgumentAssumption ==
  /\ Shapes \subseteq [width : Nat, height : Nat, bitsPerPixel : Nat]
  /\ NewShapes \subseteq [width : Nat, height : Nat, bitsPerPixel : Nat]
  /\ DevKinds \subseteq Nat
  /\ PixData \subseteq Nat

VARIABLES
  held, ready,  \* the offscreen manager: see OffscreenPool
  pixmaps       \* pixmap -> its IMXEXAPixmapRec

pixVars == <<held, ready, pixmaps>>

NoArea == [lo |-> 0, size |-> 0]

Record ==
  [width : Nat, height : Nat, bitsPerPixel : Nat, pitchBytes : Nat,
   ptr : Nat, canAccel : BOOLEAN,
   gpuAddr : {Null} \cup MemPhysBase .. MemPhysBase + MemorySize - 1,
   area : [lo : Nat, size : Nat], sysPtr : Nat]

Live   == DOMAIN pixmaps
Owners == {p \in Live : pixmaps[p].area # NoArea}

RoundUp(x, a) == (x + a - 1) - ((x + a - 1) % a)

GpuPitch(s) == (RoundUp(s.width, Tile) * s.bitsPerPixel) \div 8

\* The server takes no more than 32767 by 32767 pixels of 32 bits, which are
\* rounded up to just as many bytes as an int has values.
ASSUME SizeAssumption ==
  \A s \in Shapes : s.bitsPerPixel >= 8 =>
    RoundUp(s.height, Tile) * GpuPitch(s) <= IntRange

\* Mutation: the width is rounded up for the pitch but not for the size.
GpuBytesNarrow(s) == s.height * ((s.width * s.bitsPerPixel) \div 8)

\* Mutation: the height is not rounded up to whole tiles.
GpuBytesRagged(s) == s.height * GpuPitch(s)

\* The product of two ints, read as unsigned by the manager's comparison.
GpuBytes(s) == (RoundUp(s.height, Tile) * GpuPitch(s)) % IntRange

\* fb works on 32 bit units.
SystemPitch(width, bitsPerPixel) == ((width * bitsPerPixel + 31) \div 32) * 4

\* Mutation: no alignment is asked for.
GpuRequestUnaligned(s) ==
  [size |-> GpuBytes(s), align |-> 0, locked |-> TRUE]

GpuRequest(s) ==
  [size |-> GpuBytes(s), align |-> OffsetAlign, locked |-> TRUE]

Pool == INSTANCE OffscreenPool
  WITH PoolBase <- OffScreenBase,
       PoolEnd  <- MemorySize,
       Requests <- {GpuRequest(s) : s \in Shapes}

\* Mutation: the end of the memory counts as inside.
InVideoClosed(a) == MemoryBase <= a /\ a <= MemoryBase + MemorySize

InVideo(a)  == MemoryBase <= a /\ a < MemoryBase + MemorySize
Physical(a) == MemPhysBase + (a - MemoryBase)

-----------------------------------------------------------------------------
(* Z160EXACreatePixmap2. *)

HasPixels(s) == s.width # 0 /\ s.height # 0

\* What the record of a new pixmap says of its memory.
NewRecord(s, pitchBytes, ptr, canAccel, gpuAddr, area, sysPtr) ==
  [width |-> s.width, height |-> s.height, bitsPerPixel |-> s.bitsPerPixel,
   pitchBytes |-> pitchBytes, ptr |-> ptr, canAccel |-> canAccel,
   gpuAddr |-> gpuAddr, area |-> area, sysPtr |-> sysPtr]

Add(p, rec) ==
  pixmaps' = [q \in Live \cup {p} |-> IF q = p THEN rec ELSE pixmaps[q]]

\* A pixmap without pixels gets no memory: the server makes headers so.
CreateHeader(p, s) ==
  /\ ~ HasPixels(s)
  /\ Add(p, NewRecord(s, 0, Null, FALSE, Null, NoArea, Null))
  /\ UNCHANGED <<held, ready>>

CreateInVideo(p, s) ==
  /\ HasPixels(s) /\ s.bitsPerPixel >= 8
  /\ \E a \in Pool!Grantable(GpuRequest(s)) :
       /\ Pool!Grant(GpuRequest(s), a)
       /\ Add(p, NewRecord(s, GpuPitch(s), MemoryBase + a.lo, TRUE,
                           MemPhysBase + a.lo, a, Null))

\* Below 8 bits per pixel, or when the manager refuses.
CreateInSystem(p, s) ==
  /\ HasPixels(s)
  /\ \E a \in Heap \ {pixmaps[q].sysPtr : q \in Live} :
       Add(p, NewRecord(s, SystemPitch(s.width, s.bitsPerPixel), a, FALSE,
                        Null, NoArea, a))
  /\ UNCHANGED <<held, ready>>

CreatePixmap2(p, s) ==
  /\ p \notin Live
  /\ CreateHeader(p, s) \/ CreateInVideo(p, s) \/ CreateInSystem(p, s)

-----------------------------------------------------------------------------
Remove(p) == pixmaps' = [q \in Live \ {p} |-> pixmaps[q]]

\* Mutation: the area stays allocated.
DestroyPixmapOnly(p) ==
  /\ Remove(p)
  /\ UNCHANGED <<held, ready>>

DestroyPixmap(p) ==
  /\ Remove(p)
  /\ IF pixmaps[p].area # NoArea
     THEN Pool!Release(pixmaps[p].area)
     ELSE UNCHANGED <<held, ready>>

-----------------------------------------------------------------------------
(* Z160EXAModifyPixmapHeader: an argument of 0 leaves its field alone. *)

Given(new, old) == IF new > 0 THEN new ELSE old

\* Mutation: pixmaps outside video memory stay accelerated.
AcceleratedStill(rec, data) == rec.canAccel \/ InVideo(data)

\* Only data in video memory is accelerated.
Accelerated(rec, data) == IF data # Null THEN InVideo(data) ELSE rec.canAccel

\* New data without a pitch gets the pitch of system memory.
Modified(rec, s, devKind, data) ==
  LET width == Given(s.width, rec.width)
      bpp   == Given(s.bitsPerPixel, rec.bitsPerPixel)
      kind  == IF data # Null /\ devKind = 0
               THEN SystemPitch(width, bpp)
               ELSE devKind
  IN  [width        |-> width,
       height       |-> Given(s.height, rec.height),
       bitsPerPixel |-> bpp,
       pitchBytes   |-> Given(kind, rec.pitchBytes),
       ptr          |-> Given(data, rec.ptr),
       canAccel     |-> Accelerated(rec, data),
       gpuAddr      |-> IF data # Null /\ InVideo(data)
                        THEN Physical(data) ELSE rec.gpuAddr,
       area         |-> rec.area,
       sysPtr       |-> rec.sysPtr]

\* The server re-points the headers it created.  A pixmap with memory of its
\* own is only told, once it is made, what its record says already.
ModifyPixmapHeader(p, s, devKind, data) ==
  /\ pixmaps[p].area = NoArea /\ pixmaps[p].sysPtr = Null
  /\ pixmaps' = [pixmaps EXCEPT ![p] = Modified(pixmaps[p], s, devKind, data)]
  /\ UNCHANGED <<held, ready>>

-----------------------------------------------------------------------------
(* Screen set up and tear down, as far as pixmaps see it. *)

ScreenInit == Pool!Open /\ UNCHANGED pixmaps

\* The server has destroyed the pixmaps by then.
CloseScreen == Owners = {} /\ Pool!Close /\ UNCHANGED pixmaps

PixInit == Pool!PoolInit /\ pixmaps = [p \in {} |-> 0]

Create == \E p \in Pixmaps, s \in Shapes : CreatePixmap2(p, s)

Modify ==
  \E p \in Live, s \in NewShapes, devKind \in DevKinds,
     data \in PixData \cup {Null} : ModifyPixmapHeader(p, s, devKind, data)

PixNext ==
  \/ ScreenInit
  \/ CloseScreen
  \/ Create
  \/ Modify
  \/ \E p \in Live : DestroyPixmap(p)

PixSpec == PixInit /\ [][PixNext]_pixVars

-----------------------------------------------------------------------------
(* What the rest of the driver makes of a pixmap. *)

\* Z160CanAcceleratePixmapRectangles.
CanAccelerateRectangles(rec) ==
  /\ rec.canAccel
  /\ rec.pitchBytes <= MaxPitch
  /\ rec.pitchBytes % PitchAlign = 0
  /\ rec.gpuAddr % OffsetAlign = 0

Answer(state, physAddr, pitch) ==
  [pixmapState |-> state, pixmapPhysAddr |-> physAddr, pixmapPitch |-> pitch]

\* Mutation: any pixmap that ever was in video memory has an address.
ReplyEver(p) ==
  IF p \notin Live THEN Answer("Undefined", Null, 0)
  ELSE IF pixmaps[p].gpuAddr = Null THEN Answer("Other", Null, 0)
  ELSE Answer("Framebuffer", pixmaps[p].gpuAddr, pixmaps[p].pitchBytes)

\* The reply to GetPixmapPhysAddr, whether the pixmap exists or not.
Reply(p) ==
  IF p \notin Live THEN Answer("Undefined", Null, 0)
  ELSE IF ~ pixmaps[p].canAccel THEN Answer("Other", Null, 0)
  ELSE Answer("Framebuffer", pixmaps[p].gpuAddr, pixmaps[p].pitchBytes)

-----------------------------------------------------------------------------
PixTypeOK ==
  /\ held \subseteq [lo : Nat, size : Nat]
  /\ ready \in BOOLEAN
  /\ Live \subseteq Pixmaps
  /\ pixmaps \in [Live -> Record]

(***************************************************************************)
(* The server, the GPU and the clients mean the same byte: what the driver *)
(* reports as the physical address of a pixmap is where the server draws   *)
(* it, through every re-pointing, and a pixmap outside video memory is     *)
(* never reported as being in it.                                          *)
(***************************************************************************)
Agrees(p) ==
  IF InVideo(pixmaps[p].ptr)
  THEN /\ Reply(p).pixmapState = "Framebuffer"
       /\ Reply(p).pixmapPhysAddr = Physical(pixmaps[p].ptr)
  ELSE Reply(p).pixmapState = "Other"

AddressesAgree == \A p \in Live : Agrees(p)

(***************************************************************************)
(* The areas allocated are exactly those of the live pixmaps, one each: no *)
(* area is lost when a pixmap dies and none is shared.                     *)
(***************************************************************************)
NothingLeaks ==
  /\ held = {pixmaps[p].area : p \in Owners}
  /\ \A p, q \in Owners : pixmaps[p].area = pixmaps[q].area => p = q

(***************************************************************************)
(* The GPU works in whole tiles: those of a pixmap the driver placed in    *)
(* video memory are inside the area it was given.                          *)
(***************************************************************************)
TilesInside ==
  \A p \in Owners :
    LET rec == pixmaps[p]
    IN  /\ MemoryBase + rec.area.lo <= rec.ptr
        /\ rec.ptr + RoundUp(rec.height, Tile) * rec.pitchBytes
             <= MemoryBase + rec.area.lo + rec.area.size

(***************************************************************************)
(* What CreatePixmap2 places in video memory the GPU can work on: the      *)
(* alignments asked of the manager are those the check wants later.  Only  *)
(* the pitch limit can still refuse.                                       *)
(***************************************************************************)
PlacedIsUsable ==
  \A p \in Owners :
    pixmaps[p].pitchBytes <= MaxPitch => CanAccelerateRectangles(pixmaps[p])

(***************************************************************************)
(* A client that draws through the address it was told for one pixmap      *)
(* reaches neither another pixmap nor the screen.                          *)
(***************************************************************************)
Told(p) ==
  LET reply == Reply(p)
  IN  reply.pixmapPhysAddr ..
        reply.pixmapPhysAddr + reply.pixmapPitch * pixmaps[p].height - 1

ClientsApart ==
  \A p \in Owners :
    /\ Told(p) \subseteq MemPhysBase + OffScreenBase ..
                         MemPhysBase + MemorySize - 1
    /\ \A q \in Owners \ {p} : Told(p) \cap Told(q) = {}
=============================================================================
