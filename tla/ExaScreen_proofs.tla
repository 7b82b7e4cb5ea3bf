--------------------------- MODULE ExaScreen_proofs ---------------------------
(***************************************************************************)
(* Proofs about ExaScreen.  Each of its two parts behaves, whatever the    *)
(* other does, as the module that describes it alone, so that everything   *)
(* proved of ExaPixmaps and of GpuOps holds of them together; and from     *)
(* what is proved of each follows what takes both, NoSharedByte.           *)
(***************************************************************************)
EXTENDS ExaScreen, ExaPixmaps_proofs, GpuOps_proofs

-----------------------------------------------------------------------------
(* The screen's pixmaps are those of ExaPixmaps, call by call. *)

LEMMA PixmapStep ==
  ASSUME [ScreenNext]_screenVars PROVE [PixNext]_pixVars
<1>1. CASE ScreenUp
  BY <1>1 DEF ScreenUp, PixNext
<1>2. CASE ScreenDown
  BY <1>2 DEF ScreenDown, PixNext
<1>3. CASE PixmapCall
  BY <1>3 DEF PixmapCall, PixNext
<1>4. CASE PrepareOn \/ Drawing \/ AccessDone \/ \E p \in Live : Access(p)
  BY <1>4 DEF PrepareOn, Drawing, AccessDone, Access
<1>5. CASE UNCHANGED screenVars
  BY <1>5 DEF screenVars
<1> QED
  BY <1>1, <1>2, <1>3, <1>4, <1>5 DEF ScreenNext

(***************************************************************************)
(* With a GPU at work on them, pixmaps are created, re-pointed and         *)
(* destroyed as ExaPixmaps says.                                           *)
(***************************************************************************)
THEOREM PixmapsAsAlone == ScreenSpec => PixSpec
<1>1. ScreenSpecInit => PixInit
  BY DEF ScreenSpecInit
<1> QED
  BY <1>1, PixmapStep, PTL DEF PixSpec, ScreenSpec

(***************************************************************************)
(* NothingLeaks and ClientsApart, of the screen: no area is lost and no    *)
(* memory shared, although pixmaps go while the GPU draws them.            *)
(***************************************************************************)
THEOREM ScreenKeepsPixmaps == ScreenSpec => [](NothingLeaks /\ ClientsApart)
<1> QED
  BY PixmapsAsAlone, NoAreaLeaks, ClientsAlwaysApart, PTL

-----------------------------------------------------------------------------
(* The GPU is told only memory that it can be told. *)

LEMMA BufferIsRecord ==
  ASSUME PixTypeOK, NEW p \in Live
  PROVE  Buffer(p) \in [base : Nat, size : Nat]
<1> DEFINE rec  == pixmaps[p]
           size == RoundUp(rec.height, Tile) * rec.pitchBytes
<1>1. rec.gpuAddr \in Nat /\ rec.height \in Nat /\ rec.pitchBytes \in Nat
  BY MemoryAssumption DEF PixTypeOK, Record, Null
<1>2. size \in Nat
  BY <1>1, RoundUpFacts, ProductNat, AlignAssumption
<1>3. Buffer(p) = [base |-> rec.gpuAddr, size |-> size]
  BY DEF Buffer
<1> HIDE DEF rec, size
<1> QED
  BY <1>1, <1>2, <1>3

\* What GpuOps needs of a screen: the memory of each pixmap it may work on.
BuffersKnown == \A p \in Live : pixmaps[p].canAccel => Buffer(p) \in Mem

LEMMA GpuStep ==
  ASSUME BuffersKnown, [ScreenNext]_screenVars
  PROVE  [GpuNext]_gpuVars
<1>1. CASE ScreenUp \/ ScreenDown
  BY <1>1 DEF ScreenUp, ScreenDown, GpuNext
<1>2. CASE PixmapCall
  BY <1>2 DEF PixmapCall
<1>3. CASE PrepareOn
  <2>1. \A p \in Drawable : Buffer(p) \in Mem
    BY DEF BuffersKnown, Drawable, CanAccelerateRectangles
  <2> QED
    BY <1>3, <2>1 DEF PrepareOn, GpuNext, Prepare
<1>4. CASE Drawing
  BY <1>4 DEF Drawing, GpuNext
<1>5. CASE \E p \in Live : Access(p)
  BY <1>5 DEF BuffersKnown, Access, IsOffscreen, GpuNext
<1>6. CASE AccessDone
  BY <1>6 DEF AccessDone, GpuNext
<1>7. CASE UNCHANGED screenVars
  BY <1>7 DEF screenVars
<1> QED
  BY <1>1, <1>2, <1>3, <1>4, <1>5, <1>6, <1>7 DEF ScreenNext

(***************************************************************************)
(* On pixmaps that come and go, operations and waits are those of GpuOps,  *)
(* whose memory is whatever a record can name.                             *)
(***************************************************************************)
THEOREM GpuAsAlone ==
  ASSUME [base : Nat, size : Nat] \subseteq Mem
  PROVE  ScreenSpec => GpuSpec
<1>1. ScreenSpecInit => GpuInit
  BY DEF ScreenSpecInit
<1>2. PixTypeOK => BuffersKnown
  BY BufferIsRecord DEF BuffersKnown
<1>3. PixTypeOK /\ [ScreenNext]_screenVars => [GpuNext]_gpuVars
  BY <1>2, GpuStep
<1> QED
  BY <1>1, <1>3, PixmapsAsAlone, PixTypeCorrect, PTL DEF GpuSpec, ScreenSpec

(***************************************************************************)
(* What is proved of GpuOps, of the screen: no pixmap that comes or goes   *)
(* between operations makes the CPU race with the GPU, a rectangle be      *)
(* drawn with another operation's set up, a command stay unflushed, or     *)
(* work be left behind when the GPU is disconnected.                       *)
(***************************************************************************)
THEOREM ScreenKeepsOperations ==
  ASSUME [base : Nat, size : Nat] \subseteq Mem
  PROVE  ScreenSpec => [](/\ NoRace /\ DrawsWhatWasAsked
                          /\ IdleIsFlushed /\ ReleasedIsIdle)
<1> QED
  BY GpuAsAlone, NoRaceEver, DrawnAsAsked, NothingLeftInBatch,
     AtRestWhenReleased, PTL

-----------------------------------------------------------------------------
(***************************************************************************)
(* The CPU never works on a pixmap in video memory, however it got there,  *)
(* without having asked for the wait that GpuOps is about.                 *)
(***************************************************************************)
AccessHasWaited == \A p \in accessed : InVideo(pixmaps[p].ptr) => cpu # {}

AccessLive == accessed \subseteq Live

LEMMA AccessKept ==
  ASSUME AccessHasWaited, AccessLive, UNCHANGED <<accessed, pixmaps, cpu>>
  PROVE  AccessHasWaited' /\ AccessLive'
BY DEF AccessHasWaited, AccessLive, Live, InVideo

LEMMA AccessStep ==
  ASSUME PixInv, AccessHasWaited, AccessLive, [ScreenNext]_screenVars
  PROVE  AccessHasWaited' /\ AccessLive'
<1>1. CASE ScreenUp
  BY <1>1, AccessKept DEF ScreenUp, ContextGet, ScreenInit, pixVars
<1>2. CASE accessed' = {}
  BY <1>2 DEF AccessHasWaited, AccessLive
<1>3. CASE PrepareOn
  BY <1>3, <1>2 DEF PrepareOn, BetweenCalls
<1>4. CASE Drawing
  <2>1. UNCHANGED cpu
    BY <1>4 DEF Drawing, Rectangle, Solid, Copy, Composite, DrawWith, Done,
                DoneSolid, DoneCopy, DoneComposite, EndOperation, GpuFinishes
  <2> QED
    BY <1>4, <2>1, AccessKept DEF Drawing, pixVars
<1>5. CASE \E p \in Live : Access(p)
  <2>1. PICK p \in Live : Access(p)
    BY <1>5
  <2>2. accessed' = {p} /\ UNCHANGED pixmaps
    BY <2>1 DEF Access, pixVars
  <2>3. InVideo(pixmaps[p].ptr) => IsOffscreen(p)
    BY DEF PixInv, AllConsistent, Consistent, IsOffscreen
  <2>4. IsOffscreen(p) => cpu' # {}
    BY <2>1 DEF Access, CpuAccess
  <2> QED
    BY <2>2, <2>3, <2>4 DEF AccessHasWaited, AccessLive, Live, InVideo
<1>6. CASE UNCHANGED screenVars
  BY <1>6, AccessKept DEF screenVars, pixVars, gpuVars
<1> QED
  BY <1>1, <1>2, <1>3, <1>4, <1>5, <1>6
  DEF ScreenNext, ScreenDown, PixmapCall, AccessDone, BetweenCalls

(***************************************************************************)
(* AccessHasWaited: with NoRace of GpuOps, the GPU has nothing left to do  *)
(* while the CPU works on a pixmap in video memory.                        *)
(***************************************************************************)
THEOREM AccessAlwaysWaits == ScreenSpec => []AccessHasWaited
<1>1. ScreenSpecInit => AccessHasWaited /\ AccessLive
  BY DEF ScreenSpecInit, AccessHasWaited, AccessLive
<1> QED
  BY <1>1, AccessStep, PixmapsAsAlone, PixInductive, PTL DEF ScreenSpec

-----------------------------------------------------------------------------
(* Every byte that the GPU is told is one of video memory, and there it    *)
(* has nothing left to do while the CPU works.                             *)

\* The tiles of a pixmap with memory of its own are in video memory.
LEMMA OwnedFits ==
  ASSUME PixInv, NEW p \in Owners
  PROVE  BytesOf(Buffer(p)) \subseteq VideoBytes
<1> DEFINE lo == pixmaps[p].area.lo
           n  == pixmaps[p].area.size
<1>1. lo \in Nat /\ n \in Nat /\ lo + n <= MemorySize
  BY PlacedFacts
<1>2. Buffer(p) = [base |-> MemPhysBase + lo, size |-> n]
  BY PlacedFacts DEF Buffer
<1>3. MemPhysBase \in Nat /\ MemorySize \in Nat
  BY MemoryAssumption
<1> HIDE DEF lo, n
<1>4. BytesOf(Buffer(p)) = MemPhysBase + lo .. MemPhysBase + lo + n - 1
  BY <1>2 DEF BytesOf
<1> QED
  BY <1>1, <1>3, <1>4 DEF VideoBytes

LEMMA BuffersFit ==
  ASSUME PixInv, ServerFits, Mem = VideoBuffers
  PROVE  BuffersKnown
<1> SUFFICES ASSUME NEW p \in Live, pixmaps[p].canAccel
             PROVE  Buffer(p) \in VideoBuffers
  BY DEF BuffersKnown
<1>1. Buffer(p) \in [base : Nat, size : Nat]
  BY BufferIsRecord DEF PixInv
<1>2. BytesOf(Buffer(p)) \subseteq VideoBytes
  BY OwnedFits DEF ServerFits
<1> QED
  BY <1>1, <1>2 DEF VideoBuffers

LEMMA PendingFits ==
  ASSUME GpuTypeOK, Mem = VideoBuffers, NEW m \in Pending
  PROVE  BytesOf(m) \subseteq VideoBytes
<1>1. m \in Mem
  BY UsesMemory DEF Pending, GpuTypeOK
<1> QED
  BY <1>1 DEF VideoBuffers

(***************************************************************************)
(* NoSharedByte: the CPU never works on a byte that the GPU has still to   *)
(* read or draw, whatever became of the pixmap that the GPU was told.  The *)
(* server is held to ServerFits, which is about addresses it makes up and  *)
(* blocks it allocates.  Mem may be what suits the proof, since ScreenSpec *)
(* does not mention it.                                                    *)
(***************************************************************************)
THEOREM NeverSharesAByte ==
  ASSUME Mem = VideoBuffers
  PROVE  ScreenSpec /\ []ServerFits => []NoSharedByte
<1>1. ScreenSpecInit => GpuInv
  BY InitGpuInv DEF ScreenSpecInit
<1>2. PixInv /\ ServerFits /\ GpuInv /\ [ScreenNext]_screenVars => GpuInv'
  BY BuffersFit, GpuStep, NextGpuInv
<1>3. GpuInv /\ ServerFits /\ AccessHasWaited => NoSharedByte
  <2> SUFFICES ASSUME GpuInv, ServerFits, AccessHasWaited,
                      NEW p \in accessed, NEW m \in Pending
               PROVE  CpuBytes(p) \cap BytesOf(m) = {}
    BY DEF NoSharedByte
  <2>1. running # {} \/ batch # {}
    BY DEF Pending
  <2>2. cpu = {}
    BY <2>1 DEF GpuInv, OperationAlone, DrawsWhatWasAsked
  <2>3. ~ InVideo(pixmaps[p].ptr)
    BY <2>2 DEF AccessHasWaited
  <2>4. CpuBytes(p) \cap VideoBytes = {}
    BY <2>3 DEF ServerFits
  <2>5. BytesOf(m) \subseteq VideoBytes
    BY PendingFits DEF GpuInv
  <2> QED
    BY <2>4, <2>5
<1> QED
  BY <1>1, <1>2, <1>3, PixmapsAsAlone, PixInductive, AccessAlwaysWaits, PTL
  DEF ScreenSpec
=============================================================================
