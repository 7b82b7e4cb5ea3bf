--------------------------- MODULE LifeCycle_proofs ---------------------------
(***************************************************************************)
(* Proofs about LifeCycle, however many generations the server lives.      *)
(*                                                                         *)
(* IInv lists what exists at each part of the driver.  The last conjunct   *)
(* carries the argument: a failed step of ScreenInit undoes the steps      *)
(* before it, so that the three parts of the acceleration stand or fall    *)
(* together and CloseScreen, which looks at one of them, removes all; and  *)
(* Closing, that it waits for the GPU before the memory goes.              *)
(***************************************************************************)
EXTENDS LifeCycle, TLAPS

Flags ==
  /\ useAccel \in BOOLEAN /\ mapped \in BOOLEAN /\ graphics \in BOOLEAN
  /\ wrapped \in BOOLEAN /\ gpuContext \in BOOLEAN
  /\ exaDriverPtr \in BOOLEAN /\ hooks \in BOOLEAN /\ areas \in BOOLEAN
  /\ extension \in BOOLEAN /\ gpuBusy \in BOOLEAN

NoVideo == ~ mapped /\ ~ graphics /\ ~ wrapped

\* EXA has not been set up, whether or not the GPU is connected.
NoExa == ~ exaDriverPtr /\ ~ hooks /\ ~ areas /\ ~ extension

BeforeAcceleration ==
  /\ pc \in {"PreInit", "ScreenInit"} => NoVideo /\ NoExa /\ ~ gpuContext
  /\ pc = "mode" => mapped /\ NoExa /\ ~ gpuContext
  /\ pc = "acceleration" => mapped /\ NoExa /\ ~ gpuContext
  /\ pc = "exa" => mapped /\ NoExa /\ gpuContext

AfterAcceleration ==
  pc \in {"colormap", "up", "release", "restore", "unmap"} => mapped

\* CloseScreen takes down one part after the other; the extension stays until
\* the server drops it.
Closing ==
  /\ pc = "release" => ~ exaDriverPtr /\ ~ hooks /\ ~ areas
  /\ pc \in {"restore", "unmap", "unwrap"} =>
       ~ exaDriverPtr /\ ~ hooks /\ ~ areas /\ ~ gpuContext
  /\ pc \in {"unmap", "unwrap"} => ~ graphics
  /\ pc = "unwrap" => ~ mapped

\* The GPU draws for a connection, which CloseScreen still has at "release".
DrawsWhenUp == gpuBusy => gpuContext /\ pc \in {"up", "release"}

IInv ==
  /\ Flags
  /\ pc \in Places
  /\ BeforeAcceleration
  /\ AfterAcceleration
  /\ Closing
  /\ DrawsWhenUp
  /\ HooksBacked
  /\ AllOrNothing

LEMMA InductiveInit == Init => IInv
BY DEF Init, IInv, Flags, Places, BeforeAcceleration, NoVideo, NoExa,
       AfterAcceleration, Closing, DrawsWhenUp, HooksBacked, AllOrNothing

-----------------------------------------------------------------------------
\* PreInit, and the steps of ScreenInit that leave the acceleration alone.
LEMMA VideoStepKeeps ==
  ASSUME IInv,
         \/ PreInit \/ PreInitFails \/ MapVideoMemory \/ SetMode
         \/ FinishScreenInit \/ ScreenInitFails
  PROVE  IInv'
<1> USE DEF IInv, Flags, Places, BeforeAcceleration, NoVideo, NoExa,
            AfterAcceleration, Closing, DrawsWhenUp, HooksBacked, AllOrNothing,
            video, accel
<1>1. CASE PreInit
  BY <1>1 DEF PreInit
<1>2. CASE PreInitFails
  BY <1>2 DEF PreInitFails
<1>3. CASE MapVideoMemory
  BY <1>3 DEF MapVideoMemory
<1>4. CASE SetMode
  BY <1>4 DEF SetMode
<1>5. CASE FinishScreenInit
  BY <1>5 DEF FinishScreenInit
<1>6. CASE ScreenInitFails
  BY <1>6 DEF ScreenInitFails
<1> QED
  BY <1>1, <1>2, <1>3, <1>4, <1>5, <1>6

\* Setting up acceleration, or failing to.
LEMMA AccelerationStepKeeps ==
  ASSUME IInv,
         \/ NoAcceleration \/ ContextFails \/ ContextGet
         \/ ExaDriverAllocFails \/ ExaDriverInitFails \/ ExaDriverInit
  PROVE  IInv'
<1> USE DEF IInv, Flags, Places, BeforeAcceleration, NoVideo, NoExa,
            AfterAcceleration, Closing, DrawsWhenUp, HooksBacked, AllOrNothing,
            video, accel
<1>1. CASE NoAcceleration
  BY <1>1 DEF NoAcceleration
<1>2. CASE ContextFails
  BY <1>2 DEF ContextFails
<1>3. CASE ContextGet
  BY <1>3 DEF ContextGet
<1>4. CASE ExaDriverAllocFails
  BY <1>4 DEF ExaDriverAllocFails, ContextRelease
<1>5. CASE ExaDriverInitFails
  BY <1>5 DEF ExaDriverInitFails, ContextRelease
<1>6. CASE ExaDriverInit
  BY <1>6 DEF ExaDriverInit
<1> QED
  BY <1>1, <1>2, <1>3, <1>4, <1>5, <1>6

LEMMA GpuStepKeeps ==
  ASSUME IInv, GpuDraws \/ GpuFinishes
  PROVE  IInv'
<1> USE DEF IInv, Flags, Places, BeforeAcceleration, NoVideo, NoExa,
            AfterAcceleration, Closing, DrawsWhenUp, HooksBacked,
            AllOrNothing, video
<1>1. CASE GpuDraws
  BY <1>1 DEF GpuDraws
<1>2. CASE GpuFinishes
  BY <1>2 DEF GpuFinishes
<1> QED
  BY <1>1, <1>2

\* CloseScreen, part by part.
LEMMA CloseScreenKeeps ==
  ASSUME IInv,
         \/ CloseExa \/ CloseContext \/ RestoreMode \/ UnmapVideoMemory
         \/ FinishCloseScreen
  PROVE  IInv'
<1> USE DEF IInv, Flags, Places, BeforeAcceleration, NoVideo, NoExa,
            AfterAcceleration, Closing, DrawsWhenUp, HooksBacked,
            AllOrNothing, video, accel
<1>1. CASE CloseExa
  BY <1>1 DEF CloseExa, ExaFini
<1>2. CASE CloseContext
  BY <1>2 DEF CloseContext, ContextRelease
<1>3. CASE RestoreMode
  BY <1>3 DEF RestoreMode
<1>4. CASE UnmapVideoMemory
  BY <1>4 DEF UnmapVideoMemory
<1>5. CASE FinishCloseScreen
  BY <1>5 DEF FinishCloseScreen
<1> QED
  BY <1>1, <1>2, <1>3, <1>4, <1>5

LEMMA InductiveStep == IInv /\ [Next]_vars => IInv'
<1> SUFFICES ASSUME IInv, [Next]_vars PROVE IInv'
  OBVIOUS
<1>1. CASE Next
  BY <1>1, VideoStepKeeps, AccelerationStepKeeps, GpuStepKeeps,
     CloseScreenKeeps
  DEF Next
<1>2. CASE UNCHANGED vars
  BY <1>2
  DEF vars, video, accel, IInv, Flags, BeforeAcceleration, NoVideo, NoExa,
      AfterAcceleration, Closing, DrawsWhenUp, HooksBacked, AllOrNothing
<1> QED
  BY <1>1, <1>2

-----------------------------------------------------------------------------
\* What exists at each part of the driver holds in all generations.
THEOREM InductiveInvariant == Spec => []IInv
BY InductiveInit, InductiveStep, PTL DEF Spec

\* A generation never meets what the one before left.
THEOREM EveryGenerationStartsClean == Spec => []StartsClean
<1>1. IInv => StartsClean
  BY DEF IInv, StartsClean, BeforeAcceleration, NoVideo, NoExa
<1> QED
  BY <1>1, InductiveInvariant, PTL

\* EXA never calls a driver without connection, record or video memory.
THEOREM HooksAlwaysBacked == Spec => []HooksBacked
<1>1. IInv => HooksBacked
  BY DEF IInv
<1> QED
  BY <1>1, InductiveInvariant, PTL

\* Acceleration is set up completely or not at all.
THEOREM AccelerationAllOrNothing == Spec => []AllOrNothing
<1>1. IInv => AllOrNothing
  BY DEF IInv
<1> QED
  BY <1>1, InductiveInvariant, PTL

\* The GPU never draws in memory that was given back.
THEOREM QuietOnceUnmapped == Spec => []QuietWhenUnmapped
<1>1. IInv => QuietWhenUnmapped
  BY DEF IInv, QuietWhenUnmapped, DrawsWhenUp, AfterAcceleration
<1> QED
  BY <1>1, InductiveInvariant, PTL
=============================================================================
