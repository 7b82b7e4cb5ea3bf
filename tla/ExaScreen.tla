------------------------------ MODULE ExaScreen ------------------------------
(***************************************************************************)
(* Pixmaps and GPU operations together, on one screen.  GpuOps takes its   *)
(* buffers from the records of ExaPixmaps; pixmaps come and go between     *)
(* operations, while the GPU may still be drawing what was flushed.  EXA   *)
(* waits for the GPU before the CPU works on a pixmap, but only when       *)
(* PixmapIsOffscreen says that the pixmap is in video memory.              *)
(***************************************************************************)
EXTENDS GpuOps, ExaPixmaps

VARIABLE accessed  \* the pixmap that the CPU is working on, if any

screenVars == <<gpuVars, pixVars, accessed>>

\* A buffer as the GPU is told it: it works in whole tiles.
Buffer(p) ==
  [base |-> pixmaps[p].gpuAddr,
   size |-> RoundUp(pixmaps[p].height, Tile) * pixmaps[p].pitchBytes]

\* Z160GetPixmapConfig after Z160CanAcceleratePixmap.
Drawable == {p \in Live : CanAccelerateRectangles(pixmaps[p])}

\* The server is inside no operation and the CPU works on no pixmap.
BetweenCalls == ServerIdle /\ accessed = {}

-----------------------------------------------------------------------------
(* IMX_EXA_ScreenInit and IMX_EXA_CloseScreen: without memory for its      *)
(* first record the manager stays closed, which nobody notices.            *)

ScreenUp ==
  /\ ContextGet
  /\ ScreenInit \/ UNCHANGED pixVars
  /\ UNCHANGED accessed

ScreenDown ==
  /\ BetweenCalls
  /\ Owners = {}
  /\ ContextRelease
  /\ IF ready THEN CloseScreen ELSE UNCHANGED pixVars
  /\ UNCHANGED accessed

\* A pixmap is made, re-pointed or destroyed without a look at the GPU.
PixmapCall ==
  /\ BetweenCalls
  /\ \/ gpuContext /\ (Create \/ Modify)
     \/ \E p \in Live : DestroyPixmap(p)
  /\ UNCHANGED <<gpuVars, accessed>>

PrepareOn ==
  /\ BetweenCalls
  /\ \E dst, src \in Drawable :
       \/ PrepareSolid(Buffer(dst)) \/ PrepareSolidRefused(Buffer(dst))
       \/ PrepareCopy(Buffer(src), Buffer(dst))
       \/ PrepareCopyRefused(Buffer(src), Buffer(dst))
       \/ PrepareCompositeRefused(Buffer(dst))
       \/ \E mask \in {NoMem} \cup {Buffer(m) : m \in Drawable},
             repeat, pixelOnly \in BOOLEAN :
            PrepareComposite(Buffer(src), mask, Buffer(dst), repeat, pixelOnly)
  /\ UNCHANGED <<pixVars, accessed>>

\* Mutation: only pixmaps with memory of their own are in video memory.
IsOffscreenOwned(p) == pixmaps[p].area # NoArea

\* Z160EXAPixmapIsOffscreen.
IsOffscreen(p) == pixmaps[p].canAccel

\* exaPrepareAccess.
Access(p) ==
  /\ BetweenCalls
  /\ gpuContext
  /\ IF IsOffscreen(p)
     THEN CpuAccess(Buffer(p))
     ELSE UNCHANGED gpuVars
  /\ accessed' = {p}
  /\ UNCHANGED pixVars

\* exaFinishAccess.
AccessDone ==
  /\ accessed # {}
  /\ IF cpu # {} THEN CpuDone ELSE UNCHANGED gpuVars
  /\ accessed' = {}
  /\ UNCHANGED pixVars

\* Rectangles, the end of an operation, and the GPU at its own pace.
Drawing ==
  /\ Rectangle \/ Done \/ GpuFinishes
  /\ UNCHANGED <<pixVars, accessed>>

ScreenSpecInit == GpuInit /\ PixInit /\ accessed = {}

ScreenNext ==
  \/ ScreenUp
  \/ ScreenDown
  \/ PixmapCall
  \/ PrepareOn
  \/ Drawing
  \/ \E p \in Live : Access(p)
  \/ AccessDone

ScreenSpec == ScreenSpecInit /\ [][ScreenNext]_screenVars

-----------------------------------------------------------------------------
(* The bytes that CPU and GPU work on, at the addresses of the GPU. *)

CpuBytes(p) ==
  LET first == pixmaps[p].ptr - MemoryBase + MemPhysBase
  IN  first .. first + pixmaps[p].height * pixmaps[p].pitchBytes - 1

BytesOf(m) == m.base .. m.base + m.size - 1

\* What the GPU still has to read or draw.
Pending == running \cup UNION {Uses(o) : o \in batch}

(***************************************************************************)
(* No byte of a pixmap that the CPU works on is one that the GPU has still *)
(* to read or draw, not even for a pixmap that is gone and whose memory    *)
(* this one has been given since.  That takes all of it: the two flags     *)
(* that decide on a wait, and PixmapIsOffscreen true of every pixmap in    *)
(* video memory, however it got there.                                     *)
(***************************************************************************)
NoSharedByte ==
  \A p \in accessed, m \in Pending : CpuBytes(p) \cap BytesOf(m) = {}

(***************************************************************************)
(* What NoSharedByte asks of those around the driver.  A header that the   *)
(* server points into video memory has all its tiles there; a pixmap       *)
(* elsewhere, on the heap or in shared memory, has no byte there.          *)
(***************************************************************************)
VideoBytes == MemPhysBase .. MemPhysBase + MemorySize - 1

ServerFits ==
  /\ \A p \in Live \ Owners :
       pixmaps[p].canAccel => BytesOf(Buffer(p)) \subseteq VideoBytes
  /\ \A p \in accessed :
       ~ InVideo(pixmaps[p].ptr) => CpuBytes(p) \cap VideoBytes = {}

\* What the GPU may be told then.
VideoBuffers ==
  {m \in [base : Nat, size : Nat] : BytesOf(m) \subseteq VideoBytes}
=============================================================================
