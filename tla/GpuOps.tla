-------------------------------- MODULE GpuOps --------------------------------
(***************************************************************************)
(* The accelerated operations of src/src/imx_exa_z160.c and the waiting    *)
(* that keeps the CPU off memory the GPU still works on.                   *)
(*                                                                         *)
(* EXA brackets every operation: Prepare, any number of rectangles, Done.  *)
(* The driver collects rectangles in the GPU context, hands them over with *)
(* a flush in Done and remembers in gpuSynced whether it has waited since. *)
(* EXA in turn remembers in needsSync whether it has asked the driver to   *)
(* wait.  The server runs on one thread; the GPU finishes when it likes.   *)
(***************************************************************************)
EXTENDS Integers

CONSTANTS
  Mem,    \* the pixmaps in video memory
  NoMem   \* no pixmap

ASSUME NoMemAssumption == NoMem \notin Mem

VARIABLES
  gpuContext,  \* connected to the GPU
  gpuSynced,   \* no GPU operation since the last wait
  gpuOpSetup,  \* the GPU is set up for the current operation
  bufferDst,   \* z160BufferDst
  bufferSrc,   \* z160BufferSrc
  setup,       \* the set up held by the GPU context (external)
  batch,       \* operations issued and not flushed (external)
  running,     \* memory that flushed operations still use (external)
  op,          \* what EXA asked for in the last Prepare, or Idle (external)
  needsSync,   \* EXA's own flag (external)
  cpu          \* memory the CPU is reading or writing

driver   == <<gpuContext, gpuSynced, gpuOpSetup, bufferDst, bufferSrc>>
gpu      == <<setup, batch, running>>
gpuVars     == <<driver, gpu, op, needsSync, cpu>>

PlainBlends  == {"image", "const", "pattern"}
MaskedBlends == {"image_masked", "const_masked", "pattern_masked"}
BlendKinds   == PlainBlends \cup MaskedBlends

Operation(kind, dst, src, mask) ==
  [kind |-> kind, dst |-> dst, src |-> src, mask |-> mask]

Idle == Operation("idle", NoMem, NoMem, NoMem)

Shape(kinds, dsts, srcs, masks) ==
  [kind : kinds, dst : dsts, src : srcs, mask : masks]

\* Exactly the buffers that each kind of operation has.
Operations ==
  Shape({"idle"}, Mem \cup {NoMem}, {NoMem}, {NoMem})
    \cup Shape({"solid"}, Mem, {NoMem}, {NoMem})
    \cup Shape({"copy"} \cup PlainBlends, Mem, Mem, {NoMem})
    \cup Shape(MaskedBlends, Mem, Mem, Mem)

Uses(o) == {o.dst, o.src, o.mask} \ {NoMem}

-----------------------------------------------------------------------------
(* The z160 library, as the driver uses it. *)

Flush ==
  /\ running' = running \cup UNION {Uses(o) : o \in batch}
  /\ batch' = {}
  /\ UNCHANGED setup

\* Waits for what was flushed.
Wait ==
  /\ running' = {}
  /\ UNCHANGED <<setup, batch>>

\* A rectangle is drawn with whatever the context is set up for.
Draw(s) ==
  /\ setup' = s
  /\ batch' = batch \cup {s}
  /\ UNCHANGED running

GpuFinishes ==
  /\ \E m \in running : running' = running \ {m}
  /\ UNCHANGED <<driver, setup, batch, op, needsSync, cpu>>

-----------------------------------------------------------------------------
(* The connection: Z160ContextGet at screen init, Z160ContextRelease when  *)
(* the screen is closed.  A connection that fails changes nothing.         *)

ServerIdle == op = Idle /\ cpu = {}

ContextGet ==
  /\ ~ gpuContext
  /\ gpuContext' = TRUE
  /\ gpuSynced' = FALSE
  /\ gpuOpSetup' = FALSE
  /\ setup' = Idle
  /\ needsSync' = FALSE
  /\ UNCHANGED <<bufferDst, bufferSrc, batch, running, op, cpu>>

\* Mutation: the GPU is disconnected without waiting for it.
ContextDrop ==
  /\ gpuContext /\ ServerIdle
  /\ gpuContext' = FALSE
  /\ UNCHANGED <<gpuSynced, gpuOpSetup, bufferDst, bufferSrc, gpu, op, needsSync, cpu>>

ContextRelease ==
  /\ gpuContext /\ ServerIdle
  /\ Wait
  /\ gpuContext' = FALSE
  /\ UNCHANGED <<gpuSynced, gpuOpSetup, bufferDst, bufferSrc, op, needsSync, cpu>>

\* Z160Sync.
Sync ==
  IF gpuContext /\ ~ gpuSynced
  THEN /\ Wait
       /\ gpuSynced' = TRUE
       /\ UNCHANGED <<gpuContext, gpuOpSetup, bufferDst, bufferSrc>>
  ELSE UNCHANGED <<driver, gpu>>

\* exaWaitSync, which calls Z160EXAWaitMarker.
WaitSync ==
  IF needsSync
  THEN Sync /\ needsSync' = FALSE
  ELSE UNCHANGED <<driver, gpu, needsSync>>

-----------------------------------------------------------------------------
(* Solid fills and copies: the GPU is set up with the first rectangle. *)

Preparing == gpuContext /\ ServerIdle

PrepareSolid(d) ==
  /\ Preparing
  /\ bufferDst' = d
  /\ gpuOpSetup' = FALSE
  /\ op' = Operation("solid", d, NoMem, NoMem)
  /\ UNCHANGED <<gpuContext, gpuSynced, bufferSrc, gpu, needsSync, cpu>>

\* Refused for its bits per pixel, after the target has been looked up.
PrepareSolidRefused(d) ==
  /\ Preparing
  /\ bufferDst' = d
  /\ UNCHANGED <<gpuContext, gpuSynced, gpuOpSetup, bufferSrc, gpu, op, needsSync, cpu>>

\* Mutation: an operation counts as set up once it has been prepared.
PrepareCopyAsSetup(s, d) ==
  /\ Preparing
  /\ bufferDst' = d /\ bufferSrc' = s
  /\ gpuOpSetup' = TRUE
  /\ op' = Operation("copy", d, s, NoMem)
  /\ UNCHANGED <<gpuContext, gpuSynced, gpu, needsSync, cpu>>

PrepareCopy(s, d) ==
  /\ Preparing
  /\ bufferDst' = d /\ bufferSrc' = s
  /\ gpuOpSetup' = FALSE
  /\ op' = Operation("copy", d, s, NoMem)
  /\ UNCHANGED <<gpuContext, gpuSynced, gpu, needsSync, cpu>>

PrepareCopyRefused(s, d) ==
  /\ Preparing
  /\ bufferDst' = d /\ bufferSrc' = s
  /\ UNCHANGED <<gpuContext, gpuSynced, gpuOpSetup, gpu, op, needsSync, cpu>>

DrawWith(s) ==
  /\ Draw(IF gpuOpSetup THEN setup ELSE s)
  /\ gpuOpSetup' = TRUE
  /\ UNCHANGED <<gpuContext, gpuSynced, bufferDst, bufferSrc, op, needsSync, cpu>>

\* A rectangle without area draws nothing.
Solid == op.kind = "solid" /\ DrawWith(Operation("solid", bufferDst, NoMem, NoMem))

Copy == op.kind = "copy" /\ DrawWith(Operation("copy", bufferDst, bufferSrc, NoMem))

\* EXA ends the operation and marks that it must wait.
EndOperation ==
  /\ op' = Idle
  /\ needsSync' = TRUE
  /\ UNCHANGED <<gpuContext, bufferDst, bufferSrc, cpu>>

\* Mutation: the wait of an earlier operation still counts.
FinishStillSynced ==
  IF gpuOpSetup
  THEN /\ Flush
       /\ gpuOpSetup' = FALSE
       /\ UNCHANGED gpuSynced
  ELSE UNCHANGED <<gpu, gpuSynced, gpuOpSetup>>

FinishIfSetup ==
  IF gpuOpSetup
  THEN /\ Flush
       /\ gpuSynced' = FALSE
       /\ gpuOpSetup' = FALSE
  ELSE UNCHANGED <<gpu, gpuSynced, gpuOpSetup>>

DoneSolid == op.kind = "solid" /\ FinishIfSetup /\ EndOperation

DoneCopy == op.kind = "copy" /\ FinishIfSetup /\ EndOperation

-----------------------------------------------------------------------------
(* Composite: the GPU is set up by Prepare. *)

\* Mutation: a constant source is blended without its mask.
BlendKindBare(masked, repeat, pixelOnly) ==
  IF ~ repeat THEN IF masked THEN "image_masked" ELSE "image"
  ELSE IF pixelOnly THEN "const"
  ELSE IF masked THEN "pattern_masked" ELSE "pattern"

BlendKind(masked, repeat, pixelOnly) ==
  IF ~ repeat THEN IF masked THEN "image_masked" ELSE "image"
  ELSE IF pixelOnly THEN IF masked THEN "const_masked" ELSE "const"
  ELSE IF masked THEN "pattern_masked" ELSE "pattern"

PrepareComposite(s, m, d, repeat, pixelOnly) ==
  LET blend == Operation(BlendKind(m # NoMem, repeat, pixelOnly), d, s, m)
  IN  /\ Preparing
      /\ setup' = blend
      /\ gpuOpSetup' = TRUE
      /\ op' = blend
      /\ UNCHANGED <<gpuContext, gpuSynced, bufferDst, bufferSrc, batch,
                     running, needsSync, cpu>>

\* The mask turns out to have no configuration: the target is set already.
PrepareCompositeRefused(d) ==
  /\ Preparing
  /\ setup' = [setup EXCEPT !.dst = d]
  /\ gpuOpSetup' = FALSE
  /\ UNCHANGED <<gpuContext, gpuSynced, bufferDst, bufferSrc, batch, running,
                 op, needsSync, cpu>>

Composite ==
  /\ op.kind \in BlendKinds
  /\ setup.kind \in BlendKinds
  /\ Draw(setup)
  /\ UNCHANGED <<driver, op, needsSync, cpu>>

\* Mutation: nothing is handed to the GPU.
DoneCompositeUnflushed ==
  /\ op.kind \in BlendKinds
  /\ gpuSynced' = FALSE
  /\ gpuOpSetup' = FALSE
  /\ UNCHANGED gpu
  /\ EndOperation

DoneComposite ==
  /\ op.kind \in BlendKinds
  /\ Flush
  /\ gpuSynced' = FALSE
  /\ gpuOpSetup' = FALSE
  /\ EndOperation

-----------------------------------------------------------------------------
(* The CPU: UploadToScreen and DownloadFromScreen wait, then copy.  EXA's  *)
(* software fallbacks wait the same way before they draw.                  *)

\* Mutation: the copy does not wait.
CpuAccessNow(m) ==
  /\ gpuContext /\ ServerIdle
  /\ cpu' = {m}
  /\ UNCHANGED <<driver, gpu, op, needsSync>>

CpuAccess(m) ==
  /\ gpuContext /\ ServerIdle
  /\ WaitSync
  /\ cpu' = {m}
  /\ UNCHANGED op

CpuDone ==
  /\ cpu # {}
  /\ cpu' = {}
  /\ UNCHANGED <<driver, gpu, op, needsSync>>

-----------------------------------------------------------------------------
GpuInit ==
  /\ gpuContext = FALSE
  /\ gpuSynced = FALSE
  /\ gpuOpSetup = FALSE
  /\ bufferDst = NoMem
  /\ bufferSrc = NoMem
  /\ setup = Idle
  /\ batch = {}
  /\ running = {}
  /\ op = Idle
  /\ needsSync = FALSE
  /\ cpu = {}

Prepare ==
  \/ \E d \in Mem : PrepareSolid(d) \/ PrepareSolidRefused(d)
  \/ \E s, d \in Mem : PrepareCopy(s, d) \/ PrepareCopyRefused(s, d)
  \/ \E s, d \in Mem, m \in Mem \cup {NoMem}, repeat, pixelOnly \in BOOLEAN :
       PrepareComposite(s, m, d, repeat, pixelOnly)
  \/ \E d \in Mem : PrepareCompositeRefused(d)

Rectangle == Solid \/ Copy \/ Composite

Done == DoneSolid \/ DoneCopy \/ DoneComposite

GpuNext ==
  \/ ContextGet
  \/ ContextRelease
  \/ Prepare
  \/ Rectangle
  \/ Done
  \/ \E m \in Mem : CpuAccess(m)
  \/ CpuDone
  \/ GpuFinishes

GpuSpec == GpuInit /\ [][GpuNext]_gpuVars

-----------------------------------------------------------------------------
GpuTypeOK ==
  /\ gpuContext \in BOOLEAN /\ gpuSynced \in BOOLEAN /\ gpuOpSetup \in BOOLEAN
  /\ bufferDst \in Mem \cup {NoMem} /\ bufferSrc \in Mem \cup {NoMem}
  /\ setup \in Operations /\ op \in Operations
  /\ batch \subseteq Operations
  /\ running \subseteq Mem
  /\ needsSync \in BOOLEAN
  /\ cpu \subseteq Mem

(***************************************************************************)
(* The CPU never touches a pixmap while the GPU has work that it was given *)
(* or is about to be given: two flags, one of EXA and one of the driver,   *)
(* decide whether to wait, and neither may skip a wait that is needed.     *)
(***************************************************************************)
NoRace == cpu # {} => running = {} /\ batch = {}

(***************************************************************************)
(* Every rectangle is drawn as the operation in progress asked: the set up *)
(* is made once, late for fills and copies, and none is ever drawn with    *)
(* what an earlier or a refused operation left in the GPU context.         *)
(***************************************************************************)
DrawsWhatWasAsked == batch \subseteq {op}

(***************************************************************************)
(* Between operations nothing waits in the batch, which no Done would ever *)
(* hand over.                                                              *)
(***************************************************************************)
IdleIsFlushed == op = Idle => batch = {} /\ ~ gpuOpSetup

(***************************************************************************)
(* Without a connection the GPU is at rest: closing the screen disconnects *)
(* before it unmaps video memory.                                          *)
(***************************************************************************)
ReleasedIsIdle == ~ gpuContext => running = {} /\ batch = {}
=============================================================================
