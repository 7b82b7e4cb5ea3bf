------------------------------- MODULE LifeCycle -------------------------------
(***************************************************************************)
(* A screen from PreInit to the end of the server: ScreenInit and          *)
(* CloseScreen of src/src/imx_drv.c with the acceleration part of          *)
(* src/src/imx_exa_z160.c, once per generation of the server.  Every step  *)
(* of ScreenInit can fail; some failures cost the acceleration only.       *)
(*                                                                         *)
(* CloseScreen goes down in the order of the code, one action per part,    *)
(* while the GPU may still be drawing what was asked of it.                *)
(*                                                                         *)
(* A ScreenInit that fails ends the server without a CloseScreen.          *)
(***************************************************************************)
EXTENDS Integers

CONSTANT MaxGenerations  \* bound on the resets of the server

ASSUME GenerationAssumption == MaxGenerations \in Nat \ {0}

VARIABLES
  pc,            \* the part of the driver the server has reached
  generation,    \* generations begun
  mapped,        \* video memory is mapped: fbmem, fbstart (external)
  graphics,      \* the mode was set and not restored (external)
  useAccel,      \* fPtr->useAccel
  gpuContext,    \* connected to the GPU
  exaDriverPtr,  \* the driver record of EXA is allocated
  hooks,         \* EXA calls the driver for this screen (external)
  areas,         \* the list of offscreen areas exists
  extension,     \* the extension is registered (external)
  wrapped,       \* CloseScreen of the screen is IMXCloseScreen
  gpuBusy        \* the GPU is drawing (external)

video == <<mapped, graphics, wrapped>>
accel == <<useAccel, gpuContext, exaDriverPtr, hooks, areas, extension, gpuBusy>>
vars  == <<pc, generation, video, accel>>

\* Z160ContextRelease: disconnects, having waited, or does nothing.
ContextRelease ==
  IF gpuContext
  THEN gpuContext' = FALSE /\ gpuBusy' = FALSE
  ELSE UNCHANGED <<gpuContext, gpuBusy>>

-----------------------------------------------------------------------------
(* PreInit settles whether there is to be acceleration, for all            *)
(* generations.                                                            *)

PreInit ==
  /\ pc = "PreInit"
  /\ useAccel' \in BOOLEAN
  /\ gpuContext' = FALSE
  /\ pc' = "ScreenInit"
  /\ UNCHANGED <<generation, video, exaDriverPtr, hooks, areas, extension, gpuBusy>>

PreInitFails ==
  /\ pc = "PreInit"
  /\ pc' = "ended"
  /\ UNCHANGED <<generation, video, accel>>

-----------------------------------------------------------------------------
(* ScreenInit. *)

MapVideoMemory ==
  /\ pc = "ScreenInit"
  /\ mapped' = TRUE
  /\ pc' = "mode"
  /\ UNCHANGED <<generation, graphics, wrapped, accel>>

\* The mode, the visuals, fb and Render.
SetMode ==
  /\ pc = "mode"
  /\ graphics' = TRUE
  /\ pc' = "acceleration"
  /\ UNCHANGED <<generation, mapped, wrapped, accel>>

NoAcceleration ==
  /\ pc = "acceleration"
  /\ ~ useAccel
  /\ pc' = "colormap"
  /\ UNCHANGED <<generation, video, accel>>

ContextFails ==
  /\ pc = "acceleration"
  /\ useAccel
  /\ useAccel' = FALSE
  /\ pc' = "colormap"
  /\ UNCHANGED <<generation, video, gpuContext, exaDriverPtr, hooks, areas,
                 extension, gpuBusy>>

\* Mutation: nobody looks whether there is a connection.
ContextGetUnchecked ==
  /\ pc = "acceleration"
  /\ useAccel
  /\ gpuContext' \in BOOLEAN
  /\ pc' = "exa"
  /\ UNCHANGED <<generation, video, useAccel, exaDriverPtr, hooks, areas,
                 extension, gpuBusy>>

ContextGet ==
  /\ pc = "acceleration"
  /\ useAccel
  /\ gpuContext' = TRUE
  /\ pc' = "exa"
  /\ UNCHANGED <<generation, video, useAccel, exaDriverPtr, hooks, areas,
                 extension, gpuBusy>>

\* No memory for the driver record: acceleration counts as set up.
ExaDriverAllocFails ==
  /\ pc = "exa"
  /\ ContextRelease
  /\ extension' = TRUE
  /\ pc' = "colormap"
  /\ UNCHANGED <<generation, video, useAccel, exaDriverPtr, hooks, areas>>

\* Mutation: the record stays.
ExaDriverInitFailsKeeping ==
  /\ pc = "exa"
  /\ exaDriverPtr' = TRUE
  /\ ContextRelease
  /\ useAccel' = FALSE
  /\ pc' = "colormap"
  /\ UNCHANGED <<generation, video, hooks, areas, extension>>

ExaDriverInitFails ==
  /\ pc = "exa"
  /\ exaDriverPtr' = FALSE
  /\ ContextRelease
  /\ useAccel' = FALSE
  /\ pc' = "colormap"
  /\ UNCHANGED <<generation, video, hooks, areas, extension>>

\* Nobody looks whether IMX_EXA_OffscreenInit had the memory for its list.
ExaDriverInit ==
  /\ pc = "exa"
  /\ exaDriverPtr' = TRUE
  /\ hooks' = TRUE
  /\ areas' \in BOOLEAN
  /\ extension' = TRUE
  /\ pc' = "colormap"
  /\ UNCHANGED <<generation, video, useAccel, gpuContext, gpuBusy>>

\* Colormap, DPMS, and CloseScreen is wrapped.
FinishScreenInit ==
  /\ pc = "colormap"
  /\ wrapped' = TRUE
  /\ pc' = "up"
  /\ UNCHANGED <<generation, mapped, graphics, accel>>

ScreenInitFails ==
  /\ pc \in {"ScreenInit", "mode", "colormap"}
  /\ pc' = "ended"
  /\ UNCHANGED <<generation, video, accel>>

-----------------------------------------------------------------------------
(* The screen in use, and CloseScreen. *)

GpuDraws ==
  /\ pc = "up"
  /\ hooks
  /\ gpuBusy' = TRUE
  /\ UNCHANGED <<pc, generation, video, useAccel, gpuContext, exaDriverPtr,
                 hooks, areas, extension>>

GpuFinishes ==
  /\ gpuBusy
  /\ gpuBusy' = FALSE
  /\ UNCHANGED <<pc, generation, video, useAccel, gpuContext, exaDriverPtr,
                 hooks, areas, extension>>

\* exaDriverFini makes EXA let go of the driver's hooks.
ExaFini ==
  IF exaDriverPtr
  THEN areas' = FALSE /\ hooks' = FALSE /\ exaDriverPtr' = FALSE
  ELSE UNCHANGED <<areas, hooks, exaDriverPtr>>

\* Mutation: video memory is unmapped before the acceleration is closed.
CloseExaUnmapped ==
  /\ pc = "up"
  /\ ExaFini
  /\ mapped' = FALSE
  /\ pc' = "release"
  /\ UNCHANGED <<generation, graphics, wrapped, useAccel, gpuContext,
                 extension, gpuBusy>>

\* IMX_EXA_CloseScreen, until it releases the GPU, ...
CloseExa ==
  /\ pc = "up"
  /\ ExaFini
  /\ pc' = "release"
  /\ UNCHANGED <<generation, video, useAccel, gpuContext, extension, gpuBusy>>

\* Mutation: the GPU is left connected.
CloseContextNot ==
  /\ pc = "release"
  /\ pc' = "restore"
  /\ UNCHANGED <<generation, video, accel>>

\* ... and the rest of it.
CloseContext ==
  /\ pc = "release"
  /\ ContextRelease
  /\ pc' = "restore"
  /\ UNCHANGED <<generation, video, useAccel, exaDriverPtr, hooks, areas,
                 extension>>

RestoreMode ==
  /\ pc = "restore"
  /\ graphics' = FALSE
  /\ pc' = "unmap"
  /\ UNCHANGED <<generation, mapped, wrapped, accel>>

UnmapVideoMemory ==
  /\ pc = "unmap"
  /\ mapped' = FALSE
  /\ pc' = "unwrap"
  /\ UNCHANGED <<generation, graphics, wrapped, accel>>

\* At a reset the server drops all extensions and starts over.
FinishCloseScreen ==
  /\ pc = "unwrap"
  /\ wrapped' = FALSE
  /\ extension' = FALSE
  /\ IF generation < MaxGenerations
     THEN generation' = generation + 1 /\ pc' = "ScreenInit"
     ELSE pc' = "ended" /\ UNCHANGED generation
  /\ UNCHANGED <<mapped, graphics, useAccel, gpuContext, exaDriverPtr, hooks,
                 areas, gpuBusy>>

-----------------------------------------------------------------------------
Init ==
  /\ pc = "PreInit"
  /\ generation = 1
  /\ mapped = FALSE /\ graphics = FALSE /\ wrapped = FALSE
  /\ useAccel = FALSE
  /\ gpuContext = FALSE
  /\ exaDriverPtr = FALSE
  /\ hooks = FALSE
  /\ areas = FALSE
  /\ extension = FALSE
  /\ gpuBusy = FALSE

Next ==
  \/ PreInit
  \/ PreInitFails
  \/ MapVideoMemory
  \/ SetMode
  \/ NoAcceleration
  \/ ContextFails
  \/ ContextGet
  \/ ExaDriverAllocFails
  \/ ExaDriverInitFails
  \/ ExaDriverInit
  \/ FinishScreenInit
  \/ ScreenInitFails
  \/ GpuDraws
  \/ GpuFinishes
  \/ CloseExa
  \/ CloseContext
  \/ RestoreMode
  \/ UnmapVideoMemory
  \/ FinishCloseScreen

Spec == Init /\ [][Next]_vars

-----------------------------------------------------------------------------
Places == {"PreInit", "ScreenInit", "mode", "acceleration", "exa", "colormap",
           "up", "release", "restore", "unmap", "unwrap", "ended"}

(***************************************************************************)
(* Every generation starts from nothing, however far the one before came   *)
(* with its acceleration: no connection, record, list or mapping is made a *)
(* second time.                                                            *)
(***************************************************************************)
StartsClean ==
  pc = "ScreenInit" =>
    ~ (mapped \/ graphics \/ wrapped \/ gpuContext \/ exaDriverPtr \/ hooks
         \/ areas \/ extension)

(***************************************************************************)
(* EXA calls the driver only as long as there is what the calls use: the   *)
(* connection, the driver record and mapped memory.                        *)
(***************************************************************************)
HooksBacked == hooks => gpuContext /\ exaDriverPtr /\ mapped

(***************************************************************************)
(* Video memory is not given back while the GPU draws in it: CloseScreen   *)
(* waits for the GPU before it unmaps, whether or not the drawing ends by  *)
(* itself in between.                                                      *)
(***************************************************************************)
QuietWhenUnmapped == ~ mapped => ~ gpuBusy

(***************************************************************************)
(* Setting up acceleration does all of it or nothing: no connection, no    *)
(* record and no list stays behind for a screen that EXA does not serve.   *)
(***************************************************************************)
AllOrNothing ==
  pc \in {"colormap", "up"} =>
    /\ gpuContext = hooks
    /\ exaDriverPtr = hooks
    /\ areas => hooks

(***************************************************************************)
(* Acceleration counts as in use, and the extension asks EXA for addresses,*)
(* only when EXA was set up for the screen.                                *)
(***************************************************************************)
AcceleratedHasExa == pc = "up" /\ useAccel => hooks
=============================================================================
