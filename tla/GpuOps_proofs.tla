---------------------------- MODULE GpuOps_proofs ----------------------------
(***************************************************************************)
(* Proofs of the safety properties of GpuOps, for any set of pixmaps.      *)
(*                                                                         *)
(* None of them is inductive: whether a wait may be skipped depends on two *)
(* flags, and what a rectangle is drawn with on a set up made earlier.     *)
(* GpuInv says what the flags and the set up mean between any two calls.   *)
(***************************************************************************)
EXTENDS GpuOps, TLAPS

\* Work handed to the GPU is remembered by both flags.
RunningIsKnown ==
  running # {} => gpuContext /\ ~ gpuSynced /\ needsSync

\* Outside an operation nothing is collected, inside one nothing is touched.
OperationAlone ==
  /\ op # Idle => gpuContext /\ cpu = {}
  /\ cpu # {} => gpuContext /\ running = {}
  /\ ~ gpuOpSetup => batch = {}
  /\ op = Idle => ~ gpuOpSetup

\* The set up is that of the operation, or will be.
SetupIsAsked ==
  /\ gpuOpSetup => setup = op
  /\ op.kind \in BlendKinds => gpuOpSetup
  /\ op.kind = "solid" => op = Operation("solid", bufferDst, NoMem, NoMem)
  /\ op.kind = "copy" => op = Operation("copy", bufferDst, bufferSrc, NoMem)

GpuInv ==
  /\ GpuTypeOK
  /\ RunningIsKnown
  /\ OperationAlone
  /\ SetupIsAsked
  /\ DrawsWhatWasAsked

-----------------------------------------------------------------------------
(* Operations and the memory they use.                                     *)

LEMMA IdleFacts ==
  /\ Idle \in Operations
  /\ Idle.kind = "idle"
  /\ Idle.kind \notin BlendKinds
BY DEF Idle, Operation, Operations, Shape, BlendKinds, PlainBlends, MaskedBlends

LEMMA SolidFacts ==
  ASSUME NEW d \in Mem
  PROVE  /\ Operation("solid", d, NoMem, NoMem) \in Operations
         /\ Operation("solid", d, NoMem, NoMem) # Idle
         /\ Operation("solid", d, NoMem, NoMem).kind = "solid"
         /\ "solid" \notin BlendKinds
BY DEF Idle, Operation, Operations, Shape, BlendKinds, PlainBlends, MaskedBlends

LEMMA CopyFacts ==
  ASSUME NEW s \in Mem, NEW d \in Mem
  PROVE  /\ Operation("copy", d, s, NoMem) \in Operations
         /\ Operation("copy", d, s, NoMem) # Idle
         /\ Operation("copy", d, s, NoMem).kind = "copy"
         /\ "copy" \notin BlendKinds
BY DEF Idle, Operation, Operations, Shape, BlendKinds, PlainBlends, MaskedBlends

LEMMA BlendFacts ==
  ASSUME NEW s \in Mem, NEW d \in Mem, NEW m \in Mem \cup {NoMem},
         NEW repeat \in BOOLEAN, NEW pixelOnly \in BOOLEAN,
         NEW blend,
         blend = Operation(BlendKind(m # NoMem, repeat, pixelOnly), d, s, m)
  PROVE  /\ blend \in Operations
         /\ blend.kind \in BlendKinds
         /\ blend # Idle
<1>1. CASE m = NoMem
  <2>1. BlendKind(m # NoMem, repeat, pixelOnly) \in PlainBlends
    BY <1>1 DEF BlendKind, PlainBlends
  <2> QED
    BY <1>1, <2>1
    DEF Operation, Operations, Shape, Idle, BlendKinds, PlainBlends
<1>2. CASE m # NoMem
  <2>1. BlendKind(m # NoMem, repeat, pixelOnly) \in MaskedBlends
    BY <1>2 DEF BlendKind, MaskedBlends
  <2>2. m \in Mem
    BY <1>2
  <2> QED
    BY <2>1, <2>2
    DEF Operation, Operations, Shape, Idle, BlendKinds, MaskedBlends
<1> QED
  BY <1>1, <1>2

LEMMA UsesMemory ==
  ASSUME NEW o \in Operations
  PROVE  Uses(o) \subseteq Mem
BY DEF Uses, Operations, Shape

\* Handing over the batch of the operation keeps the types.
LEMMA FlushFacts ==
  ASSUME GpuTypeOK, Flush
  PROVE  running' \subseteq Mem /\ batch' = {} /\ setup' = setup
BY UsesMemory DEF GpuTypeOK, Flush

-----------------------------------------------------------------------------
THEOREM InitGpuInv == GpuInit => GpuInv
BY IdleFacts
DEF GpuInit, GpuInv, GpuTypeOK, RunningIsKnown, OperationAlone, SetupIsAsked,
    DrawsWhatWasAsked

\* The driver waits exactly when it was asked to.
LEMMA WaitSyncFacts ==
  ASSUME GpuInv, WaitSync, op = Idle
  PROVE  /\ running' = {} /\ batch' = {} /\ setup' = setup
         /\ gpuContext' = gpuContext /\ gpuOpSetup' = gpuOpSetup
         /\ gpuSynced' \in BOOLEAN /\ needsSync' \in BOOLEAN
         /\ bufferDst' = bufferDst /\ bufferSrc' = bufferSrc
<1>1. batch = {}
  BY DEF GpuInv, OperationAlone
<1>2. CASE needsSync /\ gpuContext /\ ~ gpuSynced
  BY <1>1, <1>2 DEF WaitSync, Sync, Wait
<1>3. CASE ~ (needsSync /\ gpuContext /\ ~ gpuSynced)
  BY <1>1, <1>3
  DEF WaitSync, Sync, driver, gpu, GpuInv, RunningIsKnown, GpuTypeOK
<1> QED
  BY <1>2, <1>3

LEMMA FinishFacts ==
  ASSUME GpuInv, FinishIfSetup
  PROVE  /\ running' \subseteq Mem /\ batch' = {} /\ setup' = setup
         /\ ~ gpuOpSetup' /\ gpuOpSetup' \in BOOLEAN /\ gpuSynced' \in BOOLEAN
         /\ running' # {} => ~ gpuSynced'
<1>1. CASE gpuOpSetup
  BY <1>1, FlushFacts DEF FinishIfSetup, GpuInv
<1>2. CASE ~ gpuOpSetup
  BY <1>2
  DEF FinishIfSetup, gpu, GpuInv, GpuTypeOK, OperationAlone, RunningIsKnown
<1> QED
  BY <1>1, <1>2

LEMMA EndKeepsGpuInv ==
  ASSUME GpuInv, op # Idle, EndOperation,
         running' \subseteq Mem, batch' = {}, setup' = setup,
         ~ gpuOpSetup', gpuOpSetup' \in BOOLEAN, gpuSynced' \in BOOLEAN,
         running' # {} => ~ gpuSynced'
  PROVE  GpuInv'
<1>1. /\ op' = Idle /\ needsSync' = TRUE
      /\ gpuContext' = gpuContext /\ cpu' = cpu
      /\ bufferDst' = bufferDst /\ bufferSrc' = bufferSrc
  BY DEF EndOperation
<1>2. gpuContext /\ cpu = {}
  BY DEF GpuInv, OperationAlone
<1>3. GpuTypeOK'
  BY <1>1, IdleFacts DEF GpuInv, GpuTypeOK
<1>4. RunningIsKnown' /\ OperationAlone'
  BY <1>1, <1>2 DEF RunningIsKnown, OperationAlone
<1>5. SetupIsAsked' /\ DrawsWhatWasAsked'
  BY <1>1, IdleFacts DEF SetupIsAsked, DrawsWhatWasAsked
<1> QED
  BY <1>3, <1>4, <1>5 DEF GpuInv

LEMMA DrawKeepsGpuInv ==
  ASSUME GpuInv, op # Idle,
         setup' = op, batch' = batch \cup {op}, running' = running,
         gpuOpSetup' = TRUE,
         UNCHANGED <<gpuContext, gpuSynced, bufferDst, bufferSrc, op,
                     needsSync, cpu>>
  PROVE  GpuInv'
<1>1. GpuTypeOK'
  BY DEF GpuInv, GpuTypeOK
<1>2. RunningIsKnown' /\ OperationAlone'
  BY DEF GpuInv, RunningIsKnown, OperationAlone
<1>3. SetupIsAsked' /\ DrawsWhatWasAsked'
  BY DEF GpuInv, SetupIsAsked, DrawsWhatWasAsked
<1> QED
  BY <1>1, <1>2, <1>3 DEF GpuInv

-----------------------------------------------------------------------------
LEMMA PrepareKeepsGpuInv ==
  ASSUME GpuInv, Prepare
  PROVE  GpuInv'
<1>0. /\ op = Idle /\ cpu = {} /\ gpuContext
      /\ batch = {} /\ ~ gpuOpSetup
  BY DEF Prepare, PrepareSolid, PrepareSolidRefused, PrepareCopy,
         PrepareCopyRefused, PrepareComposite, PrepareCompositeRefused,
         Preparing, ServerIdle, GpuInv, OperationAlone
<1>1. ASSUME NEW d \in Mem, PrepareSolid(d)
      PROVE  GpuInv'
  <2>1. GpuTypeOK'
    BY <1>1, SolidFacts DEF PrepareSolid, GpuInv, GpuTypeOK, gpu
  <2>2. RunningIsKnown' /\ OperationAlone'
    BY <1>0, <1>1
    DEF PrepareSolid, GpuInv, RunningIsKnown, OperationAlone, gpu
  <2>3. SetupIsAsked' /\ DrawsWhatWasAsked'
    BY <1>0, <1>1, SolidFacts
    DEF PrepareSolid, SetupIsAsked, DrawsWhatWasAsked, gpu
  <2> QED
    BY <2>1, <2>2, <2>3 DEF GpuInv
<1>2. ASSUME NEW s \in Mem, NEW d \in Mem, PrepareCopy(s, d)
      PROVE  GpuInv'
  <2>1. GpuTypeOK'
    BY <1>2, CopyFacts DEF PrepareCopy, GpuInv, GpuTypeOK, gpu
  <2>2. RunningIsKnown' /\ OperationAlone'
    BY <1>0, <1>2
    DEF PrepareCopy, GpuInv, RunningIsKnown, OperationAlone, gpu
  <2>3. SetupIsAsked' /\ DrawsWhatWasAsked'
    BY <1>0, <1>2, CopyFacts
    DEF PrepareCopy, SetupIsAsked, DrawsWhatWasAsked, gpu
  <2> QED
    BY <2>1, <2>2, <2>3 DEF GpuInv
<1>3. ASSUME NEW d \in Mem,
             PrepareSolidRefused(d) \/ (\E s \in Mem : PrepareCopyRefused(s, d))
      PROVE  GpuInv'
  <2>1. /\ bufferDst' \in Mem \cup {NoMem} /\ bufferSrc' \in Mem \cup {NoMem}
        /\ UNCHANGED <<gpuContext, gpuSynced, gpuOpSetup, gpu, op, needsSync, cpu>>
    BY <1>3 DEF PrepareSolidRefused, PrepareCopyRefused, GpuInv, GpuTypeOK
  <2>2. GpuTypeOK'
    BY <2>1 DEF GpuInv, GpuTypeOK, gpu
  <2>3. RunningIsKnown' /\ OperationAlone'
    BY <2>1 DEF GpuInv, RunningIsKnown, OperationAlone, gpu
  <2>4. SetupIsAsked' /\ DrawsWhatWasAsked'
    BY <1>0, <2>1, IdleFacts DEF SetupIsAsked, DrawsWhatWasAsked, gpu
  <2> QED
    BY <2>2, <2>3, <2>4 DEF GpuInv
<1>4. ASSUME NEW s \in Mem, NEW d \in Mem, NEW m \in Mem \cup {NoMem},
             NEW repeat \in BOOLEAN, NEW pixelOnly \in BOOLEAN,
             PrepareComposite(s, m, d, repeat, pixelOnly)
      PROVE  GpuInv'
  <2> DEFINE blend ==
        Operation(BlendKind(m # NoMem, repeat, pixelOnly), d, s, m)
  <2>1. blend \in Operations /\ blend.kind \in BlendKinds /\ blend # Idle
    BY BlendFacts
  <2>2. /\ setup' = blend /\ op' = blend /\ gpuOpSetup' = TRUE
        /\ UNCHANGED <<gpuContext, gpuSynced, bufferDst, bufferSrc, batch,
                       running, needsSync, cpu>>
    BY <1>4 DEF PrepareComposite
  <2> HIDE DEF blend
  <2>3. GpuTypeOK'
    BY <2>1, <2>2 DEF GpuInv, GpuTypeOK
  <2>4. RunningIsKnown' /\ OperationAlone'
    BY <1>0, <2>1, <2>2 DEF GpuInv, RunningIsKnown, OperationAlone
  <2>5. blend.kind # "solid" /\ blend.kind # "copy"
    BY <2>1 DEF BlendKinds, PlainBlends, MaskedBlends
  <2>6. SetupIsAsked' /\ DrawsWhatWasAsked'
    BY <1>0, <2>1, <2>2, <2>5 DEF SetupIsAsked, DrawsWhatWasAsked
  <2> QED
    BY <2>3, <2>4, <2>6 DEF GpuInv
<1>5. ASSUME NEW d \in Mem, PrepareCompositeRefused(d)
      PROVE  GpuInv'
  <2>1. /\ setup' = [setup EXCEPT !.dst = d] /\ gpuOpSetup' = FALSE
        /\ UNCHANGED <<gpuContext, gpuSynced, bufferDst, bufferSrc, batch,
                       running, op, needsSync, cpu>>
    BY <1>5 DEF PrepareCompositeRefused
  <2>2. setup' \in Operations
    BY <2>1 DEF GpuInv, GpuTypeOK, Operations, Shape
  <2>3. GpuTypeOK'
    BY <2>1, <2>2 DEF GpuInv, GpuTypeOK
  <2>4. RunningIsKnown' /\ OperationAlone'
    BY <1>0, <2>1 DEF GpuInv, RunningIsKnown, OperationAlone
  <2>5. SetupIsAsked' /\ DrawsWhatWasAsked'
    BY <1>0, <2>1, IdleFacts DEF SetupIsAsked, DrawsWhatWasAsked
  <2> QED
    BY <2>3, <2>4, <2>5 DEF GpuInv
<1> QED
  BY <1>1, <1>2, <1>3, <1>4, <1>5 DEF Prepare

LEMMA RectangleKeepsGpuInv ==
  ASSUME GpuInv, Rectangle
  PROVE  GpuInv'
<1>1. CASE Solid \/ Copy
  <2>1. op # Idle
    BY <1>1, IdleFacts DEF Solid, Copy
  <2>2. /\ setup' = op /\ batch' = batch \cup {op} /\ running' = running
        /\ gpuOpSetup' = TRUE
        /\ UNCHANGED <<gpuContext, gpuSynced, bufferDst, bufferSrc, op,
                       needsSync, cpu>>
    BY <1>1 DEF Solid, Copy, DrawWith, Draw, GpuInv, SetupIsAsked
  <2> QED
    BY <2>1, <2>2, DrawKeepsGpuInv
<1>2. CASE Composite
  <2>1. op # Idle /\ gpuOpSetup /\ setup = op
    BY <1>2, IdleFacts DEF Composite, GpuInv, SetupIsAsked
  <2>2. gpuOpSetup' = TRUE
    BY <1>2, <2>1 DEF Composite, driver
  <2>3. /\ setup' = op /\ batch' = batch \cup {op} /\ running' = running
        /\ UNCHANGED <<gpuContext, gpuSynced, bufferDst, bufferSrc, op,
                       needsSync, cpu>>
    BY <1>2, <2>1 DEF Composite, Draw, driver
  <2> QED
    BY <2>1, <2>2, <2>3, DrawKeepsGpuInv
<1> QED
  BY <1>1, <1>2 DEF Rectangle

LEMMA DoneKeepsGpuInv ==
  ASSUME GpuInv, Done
  PROVE  GpuInv'
<1>1. op # Idle /\ EndOperation
  BY IdleFacts DEF Done, DoneSolid, DoneCopy, DoneComposite
<1>2. CASE DoneSolid \/ DoneCopy
  BY <1>1, <1>2, FinishFacts, EndKeepsGpuInv DEF DoneSolid, DoneCopy
<1>3. CASE DoneComposite
  BY <1>1, <1>3, FlushFacts, EndKeepsGpuInv DEF DoneComposite, GpuInv
<1> QED
  BY <1>2, <1>3 DEF Done

LEMMA ContextKeepsGpuInv ==
  ASSUME GpuInv, ContextGet \/ ContextRelease
  PROVE  GpuInv'
<1>1. CASE ContextGet
  <2>1. op = Idle /\ cpu = {} /\ running = {} /\ batch = {}
    BY <1>1 DEF ContextGet, GpuInv, RunningIsKnown, OperationAlone
  <2>2. GpuTypeOK'
    BY <1>1, IdleFacts DEF ContextGet, GpuInv, GpuTypeOK
  <2>3. RunningIsKnown' /\ OperationAlone'
    BY <1>1, <2>1 DEF ContextGet, RunningIsKnown, OperationAlone
  <2>4. SetupIsAsked' /\ DrawsWhatWasAsked'
    BY <1>1, <2>1, IdleFacts DEF ContextGet, SetupIsAsked, DrawsWhatWasAsked
  <2> QED
    BY <2>2, <2>3, <2>4 DEF GpuInv
<1>2. CASE ContextRelease
  <2>1. op = Idle /\ cpu = {} /\ batch = {} /\ ~ gpuOpSetup
    BY <1>2 DEF ContextRelease, ServerIdle, GpuInv, OperationAlone
  <2>2. GpuTypeOK'
    BY <1>2 DEF ContextRelease, Wait, GpuInv, GpuTypeOK
  <2>3. RunningIsKnown' /\ OperationAlone'
    BY <1>2, <2>1 DEF ContextRelease, Wait, RunningIsKnown, OperationAlone
  <2>4. SetupIsAsked' /\ DrawsWhatWasAsked'
    BY <1>2, <2>1, IdleFacts
    DEF ContextRelease, Wait, SetupIsAsked, DrawsWhatWasAsked
  <2> QED
    BY <2>2, <2>3, <2>4 DEF GpuInv
<1> QED
  BY <1>1, <1>2

LEMMA CpuKeepsGpuInv ==
  ASSUME GpuInv, (\E m \in Mem : CpuAccess(m)) \/ CpuDone \/ GpuFinishes
  PROVE  GpuInv'
<1>1. ASSUME NEW m \in Mem, CpuAccess(m)
      PROVE  GpuInv'
  <2>1. op = Idle /\ op' = op /\ gpuContext /\ ~ gpuOpSetup /\ cpu' = {m}
    BY <1>1 DEF CpuAccess, ServerIdle, GpuInv, OperationAlone
  <2>2. /\ running' = {} /\ batch' = {} /\ setup' = setup
        /\ gpuContext' = gpuContext /\ gpuOpSetup' = gpuOpSetup
        /\ gpuSynced' \in BOOLEAN /\ needsSync' \in BOOLEAN
        /\ bufferDst' = bufferDst /\ bufferSrc' = bufferSrc
    BY <1>1, <2>1, WaitSyncFacts DEF CpuAccess
  <2>3. GpuTypeOK'
    BY <2>1, <2>2 DEF GpuInv, GpuTypeOK
  <2>4. RunningIsKnown' /\ OperationAlone'
    BY <2>1, <2>2 DEF RunningIsKnown, OperationAlone
  <2>5. SetupIsAsked' /\ DrawsWhatWasAsked'
    BY <2>1, <2>2, IdleFacts DEF SetupIsAsked, DrawsWhatWasAsked
  <2> QED
    BY <2>3, <2>4, <2>5 DEF GpuInv
<1>2. CASE CpuDone
  BY <1>2
  DEF CpuDone, driver, gpu, GpuInv, GpuTypeOK, RunningIsKnown, OperationAlone,
      SetupIsAsked, DrawsWhatWasAsked
<1>3. CASE GpuFinishes
  <2>1. /\ running' \subseteq running
        /\ UNCHANGED <<driver, setup, batch, op, needsSync, cpu>>
    BY <1>3 DEF GpuFinishes
  <2> QED
    BY <2>1
    DEF driver, GpuInv, GpuTypeOK, RunningIsKnown, OperationAlone, SetupIsAsked,
        DrawsWhatWasAsked
<1> QED
  BY <1>1, <1>2, <1>3

LEMMA NextGpuInv == ASSUME GpuInv, [GpuNext]_gpuVars PROVE GpuInv'
<1>1. CASE GpuNext
  BY <1>1, PrepareKeepsGpuInv, RectangleKeepsGpuInv, DoneKeepsGpuInv,
     ContextKeepsGpuInv, CpuKeepsGpuInv DEF GpuNext
<1>2. CASE UNCHANGED gpuVars
  BY <1>2
  DEF gpuVars, driver, gpu, GpuInv, GpuTypeOK, RunningIsKnown, OperationAlone,
      SetupIsAsked, DrawsWhatWasAsked
<1> QED
  BY <1>1, <1>2

(***************************************************************************)
(* What GpuInv says of the two flags, the set up and the batch holds       *)
(* between any two calls of the driver.                                    *)
(***************************************************************************)
THEOREM GpuInductive == GpuSpec => []GpuInv
<1> QED
  BY InitGpuInv, NextGpuInv, PTL DEF GpuSpec

\* Every variable has its type.
THEOREM GpuTypeCorrect == GpuSpec => []GpuTypeOK
<1>1. GpuInv => GpuTypeOK
  BY DEF GpuInv
<1> QED
  BY <1>1, GpuInductive, PTL

(***************************************************************************)
(* The CPU never touches a pixmap while the GPU has or is about to be      *)
(* given work: UploadToScreen, DownloadFromScreen and EXA's fallbacks wait *)
(* long enough.                                                            *)
(***************************************************************************)
THEOREM NoRaceEver == GpuSpec => []NoRace
<1>1. GpuInv => NoRace
  BY DEF GpuInv, NoRace, OperationAlone, DrawsWhatWasAsked
<1> QED
  BY <1>1, GpuInductive, PTL

(***************************************************************************)
(* No rectangle is drawn with the set up of another operation, although    *)
(* Solid and Copy make theirs as late as their first rectangle.            *)
(***************************************************************************)
THEOREM DrawnAsAsked == GpuSpec => []DrawsWhatWasAsked
<1>1. GpuInv => DrawsWhatWasAsked
  BY DEF GpuInv
<1> QED
  BY <1>1, GpuInductive, PTL

\* Between operations every rectangle has been handed to the GPU.
THEOREM NothingLeftInBatch == GpuSpec => []IdleIsFlushed
<1>1. GpuInv => IdleIsFlushed
  BY DEF GpuInv, IdleIsFlushed, OperationAlone
<1> QED
  BY <1>1, GpuInductive, PTL

\* Once Z160ContextRelease has disconnected, the GPU is at rest.
THEOREM AtRestWhenReleased == GpuSpec => []ReleasedIsIdle
<1>1. GpuInv => ReleasedIsIdle
  BY DEF GpuInv, ReleasedIsIdle, RunningIsKnown, OperationAlone
<1> QED
  BY <1>1, GpuInductive, PTL
=============================================================================
