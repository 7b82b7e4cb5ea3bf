-------------------------------- MODULE XvPort --------------------------------
(***************************************************************************)
(* The Xv port of src/src/imx_xv_ipu.c: PutImage hands video frames to a   *)
(* task of the image processing unit (IPU), which it sets up when there is *)
(* none and again when the target moves or changes size; StopVideo takes   *)
(* the task down; the colour key attribute says where the video shows.     *)
(*                                                                         *)
(* The X server calls the port from one thread.  A call is one action for  *)
(* each stretch that MXXvMutex is held or free, because the calls take it  *)
(* and release it several times, on every one of their ways out.           *)
(***************************************************************************)
EXTENDS Integers

CONSTANTS
  Images,    \* [id, src, w, h, pos]: format, source size and rectangle,
             \* target size and position of the images put
  Keys,      \* colour keys that clients ask for
  Buffers    \* input buffers of an IPU task

ASSUME KeyAssumption ==
  /\ Keys \subseteq Int
  /\ Buffers \in Nat \ {0}

VARIABLES
  isInit,           \* pFB->isInit
  fields,           \* pFB's SrcX .. Height: all of an image but its format
  colour_key,       \* pFB->colour_key
  next_update_idx,  \* pFB->next_update_idx
  handle,           \* what the task behind pFB->ipu_handle was set up with
  locked,           \* MXXvMutex is held
  tasks,            \* tasks alive in the IPU library (external)
  hwKey,            \* the colour key of the display (external)
  pc,               \* where the call in progress is
  image             \* the arguments of PutImage, while it runs

port    == <<isInit, fields, colour_key, next_update_idx, handle>>
library == <<tasks, hwKey>>
vars    == <<port, locked, library, pc, image>>

Formats == {"BGR3", "RGBP"}

\* The IPU writes targets that are a multiple of 8 pixels wide.
Fitted(i) == [i EXCEPT !.w = i.w - (i.w % 8)]

Stored(i) == [src |-> i.src, w |-> i.w, h |-> i.h, pos |-> i.pos]

NoImage == [id |-> "none", src |-> "none", w |-> 0, h |-> 0, pos |-> 0]

FittedImages == {Fitted(i) : i \in Images} \cup {NoImage}

StoredImages == {Stored(i) : i \in FittedImages}

-----------------------------------------------------------------------------
(* Colour keys: announced with 24 bits, kept with 16, and widened to the 24 *)
(* bits the display compares with, red, green and blue each for itself.     *)

KeyMod   == 256 * 256
KeyRange == 256 * KeyMod

Clamped(v) == IF v < 0 THEN 0 ELSE IF v >= KeyRange THEN KeyRange - 1 ELSE v

\* Mutation: the key is not cut down to 16 bits.
KeptKeyWhole(v) == Clamped(v)

KeptKey(v) == Clamped(v) % KeyMod

\* The highest bits of a channel are repeated below it.
Widened5(c) == 8 * c + (c \div 4)
Widened6(c) == 4 * c + (c \div 16)

Red(rgb)   == rgb \div 2048
Green(rgb) == (rgb \div 32) % 64
Blue(rgb)  == rgb % 32

Then(high, byte) == 256 * high + byte

\* Mutation: the mask of the green channel lacks its lowest bit.
RGB565TOCOLORKEYMask(rgb) ==
  Then(Then(Widened5(Red(rgb)), Widened6(2 * (Green(rgb) \div 2))),
       Widened5(Blue(rgb)))

RGB565TOCOLORKEY(rgb) ==
  Then(Then(Widened5(Red(rgb)), Widened6(Green(rgb))), Widened5(Blue(rgb)))

-----------------------------------------------------------------------------
(* MXPutImage. *)

PutImage(i) ==
  /\ pc = "idle"
  /\ image' = Fitted(i)
  /\ pc' = "begin"
  /\ UNCHANGED <<port, locked, library>>

\* Mutation: a target that moves does not take its position along.
BeginInPlace ==
  /\ pc = "begin" /\ ~ locked
  /\ IF isInit
     THEN /\ locked' = TRUE
          /\ pc' = "check"
          /\ UNCHANGED fields
     ELSE /\ fields' = [Stored(image) EXCEPT !.pos = fields.pos]
          /\ pc' = "setup"
          /\ UNCHANGED locked
  /\ UNCHANGED <<isInit, colour_key, next_update_idx, handle, library, image>>

\* Without a task the image is stored and the mutex released again, to be
\* taken by MXSetupNewIPUTask.
Begin ==
  /\ pc = "begin" /\ ~ locked
  /\ IF isInit
     THEN /\ locked' = TRUE
          /\ pc' = "check"
          /\ UNCHANGED fields
     ELSE /\ fields' = Stored(image)
          /\ pc' = "setup"
          /\ UNCHANGED locked
  /\ UNCHANGED <<isInit, colour_key, next_update_idx, handle, library, image>>

\* MXSetupNewIPUTask tells the display the colour key (the device that was
\* found when the adaptor was set up can still be opened), ...
Setup ==
  /\ pc = "setup" /\ ~ locked
  /\ locked' = TRUE
  /\ hwKey' = RGB565TOCOLORKEY(colour_key)
  /\ pc' = "init"
  /\ UNCHANGED <<port, tasks, image>>

\* ... and starts a task.  The output format is chosen by a variable that
\* nothing initialises.
TaskStarts ==
  /\ pc = "init" /\ locked
  /\ \E f \in Formats :
       handle' = [in |-> fields, id |-> image.id, fmt |-> f]
  /\ tasks' = tasks + 1
  /\ next_update_idx' = 0
  /\ isInit' = TRUE
  /\ locked' = FALSE
  /\ pc' = "relock"
  /\ UNCHANGED <<fields, colour_key, hwKey, image>>

\* Mutation: the early return forgets the mutex.
TaskFailsLocked ==
  /\ pc = "init" /\ locked
  /\ pc' = "idle" /\ image' = NoImage
  /\ UNCHANGED <<port, locked, library>>

\* The library refuses: PutImage returns.
TaskFails ==
  /\ pc = "init" /\ locked
  /\ locked' = FALSE
  /\ pc' = "idle" /\ image' = NoImage
  /\ UNCHANGED <<port, library>>

Relock ==
  /\ pc = "relock" /\ ~ locked
  /\ locked' = TRUE
  /\ pc' = "check"
  /\ UNCHANGED <<port, library, image>>

SizeChanged == fields.w # image.w \/ fields.h # image.h

\* Mutation: a move goes unnoticed.
PositionUnchecked == FALSE

PositionChanged == fields.pos # image.pos

\* Only the target is compared, never the source.
Check ==
  /\ pc = "check" /\ locked
  /\ fields' = IF SizeChanged THEN Stored(image) ELSE fields
  /\ IF SizeChanged \/ PositionChanged
     THEN locked' = FALSE /\ pc' = "stop"
     ELSE UNCHANGED locked /\ pc' = "draw"
  /\ UNCHANGED <<isInit, colour_key, next_update_idx, handle, library, image>>

\* Mutation: the task is forgotten, not taken down.
TakeDownFlagOnly ==
  /\ isInit' = FALSE
  /\ UNCHANGED <<fields, colour_key, next_update_idx, handle, library>>

\* What MXStopVideo does with the mutex held.
TakeDown ==
  /\ isInit' = FALSE
  /\ tasks' = IF isInit THEN tasks - 1 ELSE tasks
  /\ UNCHANGED <<fields, colour_key, next_update_idx, handle, hwKey>>

StopAndRetry ==
  /\ pc = "stop" /\ ~ locked
  /\ TakeDown
  /\ pc' = "begin"
  /\ UNCHANGED <<locked, image>>

\* Paints the key, copies the frame and queues it.  The code asks for isInit
\* once more: it must be set here.
FrameQueued ==
  /\ pc = "draw" /\ locked
  /\ isInit
  /\ \E next \in 0 .. Buffers - 1 : next_update_idx' = next
  /\ locked' = FALSE
  /\ pc' = "idle" /\ image' = NoImage
  /\ UNCHANGED <<isInit, fields, colour_key, handle, library>>

\* Mutation: the port still counts as set up.
FrameRefusedStillInit ==
  /\ pc = "draw" /\ locked
  /\ isInit
  /\ next_update_idx' = -1
  /\ tasks' = tasks - 1
  /\ locked' = FALSE
  /\ pc' = "idle" /\ image' = NoImage
  /\ UNCHANGED <<isInit, fields, colour_key, handle, hwKey>>

\* The library refuses the frame: the task is taken down.
FrameRefused ==
  /\ pc = "draw" /\ locked
  /\ isInit
  /\ next_update_idx' = -1
  /\ isInit' = FALSE
  /\ tasks' = tasks - 1
  /\ locked' = FALSE
  /\ pc' = "idle" /\ image' = NoImage
  /\ UNCHANGED <<fields, colour_key, handle, hwKey>>

-----------------------------------------------------------------------------
(* MXStopVideo and the colour key attribute, MXSetPortAttribute. *)

StopVideo ==
  /\ pc = "idle" /\ ~ locked
  /\ TakeDown
  /\ UNCHANGED <<locked, pc, image>>

\* Mutation: the display learns of the key with the next task only.
SetColourKeyLazily(v) ==
  /\ pc = "idle"
  /\ colour_key' = KeptKey(v)
  /\ UNCHANGED <<isInit, fields, next_update_idx, handle, locked, library, pc, image>>

\* Without a task the display learns of the key when one is set up.
SetColourKey(v) ==
  /\ pc = "idle"
  /\ colour_key' = KeptKey(v)
  /\ pc' = IF isInit THEN "key" ELSE "idle"
  /\ UNCHANGED <<isInit, fields, next_update_idx, handle, locked, library, image>>

WriteKey ==
  /\ pc = "key"
  /\ hwKey' = RGB565TOCOLORKEY(colour_key)
  /\ pc' = "idle"
  /\ UNCHANGED <<port, locked, tasks, image>>

-----------------------------------------------------------------------------
Init ==
  /\ isInit = FALSE
  /\ fields = Stored(NoImage)
  /\ colour_key = 0
  /\ next_update_idx = 0
  /\ handle = [in |-> Stored(NoImage), id |-> NoImage.id, fmt |-> "RGBP"]
  /\ locked = FALSE
  /\ tasks = 0
  /\ hwKey = 0
  /\ pc = "idle"
  /\ image = NoImage

\* The call in progress.
Step ==
  \/ Begin
  \/ Setup
  \/ TaskStarts
  \/ TaskFails
  \/ Relock
  \/ Check
  \/ StopAndRetry
  \/ FrameQueued
  \/ FrameRefused
  \/ WriteKey

Call ==
  \/ \E i \in Images : PutImage(i)
  \/ StopVideo
  \/ \E v \in Keys : SetColourKey(v)

Next == Step \/ Call

\* The thread inside the driver keeps running; nobody has to call again.
Spec == Init /\ [][Next]_vars /\ WF_vars(Step)

-----------------------------------------------------------------------------
Places == {"idle", "begin", "setup", "init", "relock", "check", "draw",
           "stop", "key"}

TypeOK ==
  /\ isInit \in BOOLEAN
  /\ fields \in StoredImages
  /\ colour_key \in 0 .. KeyMod - 1
  /\ next_update_idx \in -1 .. Buffers - 1
  /\ handle \in [in : StoredImages, id : {i.id : i \in FittedImages},
                 fmt : Formats]
  /\ locked \in BOOLEAN
  /\ tasks \in Nat
  /\ hwKey \in 0 .. KeyRange - 1
  /\ pc \in Places
  /\ image \in FittedImages

(***************************************************************************)
(* isInit says whether the handle is a live task, and there is never more  *)
(* than that one: none is started over another, which would be lost, and   *)
(* none is taken down twice.                                               *)
(***************************************************************************)
OneTask == tasks = IF isInit THEN 1 ELSE 0

(***************************************************************************)
(* A port that says it is set up has a buffer to copy the next frame to:   *)
(* the index the library returned last was not its answer of a failure.    *)
(***************************************************************************)
BufferExists == isInit => next_update_idx \in 0 .. Buffers - 1

(***************************************************************************)
(* A frame is only copied and queued for a task that shows it where and as *)
(* large as this very call asked, whatever was put before and however the  *)
(* calls before ended.                                                     *)
(***************************************************************************)
ShownInPlace ==
  pc = "draw" =>
    /\ isInit
    /\ handle.in.w = image.w
    /\ handle.in.h = image.h
    /\ handle.in.pos = image.pos

(***************************************************************************)
(* The display looks for the key that is painted with a frame and for no   *)
(* other key a client might ask for: the video is visible, and shows in no *)
(* other window's colour.                                                  *)
(***************************************************************************)
KeyMatches ==
  pc = "draw" /\ isInit =>
    /\ hwKey = RGB565TOCOLORKEY(colour_key)
    /\ \A v \in Keys :
         hwKey = RGB565TOCOLORKEY(KeptKey(v)) => KeptKey(v) = colour_key

(***************************************************************************)
(* The mutex is free again when a call has returned, by whichever of the   *)
(* ways out: the next call would wait for itself.                          *)
(***************************************************************************)
MutexReturned == pc = "idle" => ~ locked

(***************************************************************************)
(* PutImage returns: going back to the beginning after a change cannot     *)
(* repeat forever.                                                         *)
(***************************************************************************)
PutImageReturns == (pc = "begin") ~> (pc = "idle")

(***************************************************************************)
(* The check for changes finds all changes of size, those of the source    *)
(* included: a frame is read with the layout it was sent with.             *)
(***************************************************************************)
ReadAsSent ==
  pc = "draw" /\ isInit =>
    handle.id = image.id /\ handle.in.src = image.src
=============================================================================
