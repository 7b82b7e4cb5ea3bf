# xorg-video-imx: specification, model checking and proofs

`src/` is the X.org video driver for Freescale i.MX51 boards: an fbdev driver
with 2D acceleration by the Z160 GPU (through the X server's EXA layer), video
by the image processing unit (IPU, through Xv) and a small X extension that
tells a client the physical address of a pixmap. This directory holds TLA+
modules of that driver, TLC configurations that check them on small instances,
and TLAPS proofs of their safety properties for all values of the constants.
Paths such as `imx_exa_z160.c:2303` are relative to `src/src/`.

## 1. The system

The driver is a shared object in the X server's process. The server calls it
from one thread; there is no other thread in the driver. What does run
concurrently is the GPU, which works through flushed commands at its own pace,
and the display and IPU hardware. Failures that the code handles: `malloc`,
`exaDriverAlloc`, `exaDriverInit`, the GPU connection, set up of an IPU task,
the queueing of a frame, and the steps of `ScreenInit`. The server may reset:
it closes the screen and runs `ScreenInit` again in the same process.

| component | source | state | operations |
|---|---|---|---|
| Offscreen memory manager | `imx_exa_offscreen.c` | list of areas, allocation counter, number of free areas | Init, SwapIn, Alloc, Free, Fini, SwapOut |
| EXA pixmaps | `imx_exa_z160.c:785-1087` | a record per pixmap: size, pitch, CPU address, GPU address, accelerated or not, area | CreatePixmap2, DestroyPixmap, ModifyPixmapHeader, PixmapIsOffscreen |
| X extension | `imx_ext.c`, `imx_drv.c:750-783` | none | GetPixmapPhysAddr |
| GPU operations | `imx_exa_z160.c:673-747, 1112-2228` | connection, `gpuSynced`, `gpuOpSetup`, target and source buffers | Prepare/rectangle/Done of solid, copy and composite, Upload, Download, WaitMarker |
| Composite check | `imx_exa_z160.c:381-633, 1553-1939` | none of its own | CheckComposite, PrepareComposite |
| Xv port | `imx_xv_ipu.c:160-602` | task handle and `isInit`, image of the task, colour key, next buffer, `MXXvMutex` | PutImage, StopVideo, Set/GetPortAttribute |
| Xv queries and adaptor | `imx_xv_ipu.c:604-756` | the adaptor offered, its tables | InitializeAdaptor, QueryImageAttributes, QueryBestSize |
| Life cycle | `imx_drv.c`, `imx_exa_z160.c:2240-2460` | `useAccel`, mapping, connection, EXA record, wrapped CloseScreen | PreInit, ScreenInit, CloseScreen |
| Options, probing; code no caller reaches; build and packaging; manual | | | not modelled, see section 8 |

How they interact. `CreatePixmap2` asks the manager for a locked area and
falls back to system memory; `DestroyPixmap` returns it. The EXA layer calls
Check, Prepare, any number of rectangles and Done, and before the CPU touches a
pixmap `exaWaitSync`, which calls the driver's WaitMarker when EXA's own flag
says that something was drawn. The extension asks the pixmap's record for its
address. ScreenInit maps video memory, connects to the GPU, registers with EXA,
creates the manager and registers the extension; CloseScreen takes all down.
The Xv port shares only the frame buffer with the rest.
Between two calls of EXA the GPU may still be drawing, and the server may
destroy a pixmap, give its memory to another and have the CPU fill that: whether
it waits first depends on PixmapIsOffscreen and on flags of EXA and the driver.

What makes each component correct, and what is hard to test about it:

- *Manager*: the areas tile the pool; merging leaves no two free areas side by
  side; the free count kept by increments in five places is right; eviction
  never reaches a locked area; a block holds its bytes at its alignment; a
  request is refused only if there is no room. Hard: alignment is lost at one
  end of a region and reckoned from the other, merges widen the region that the
  search chose, `malloc` may fail after evictions, the counter wraps.
- *Pixmaps and extension*: CPU, GPU and client mean the same byte through
  every re-pointing of a header; no area leaks; tiles stay inside the area.
  Hard: sizes are computed in a 32 bit int that the largest pixmaps overflow.
- *GPU*: two flags in two components decide whether to wait; the set up of a
  fill or copy is made with the first rectangle; refused operations leave
  half-changed state; memory changes hands while the GPU works on it.
- *Composite*: what Check accepts, Prepare draws without a second opinion.
- *Xv*: a task outlives the call that made it and must fit later calls; the
  calls take and release a mutex several times and have many ways out. The key
  kept is narrower than the one announced; sizes are rounded by format.
- *Life cycle*: each failure undoes what came before, over many generations.

`PROJECT.json` lists the hazards one by one, at their lines, with the
properties that cover them or the reason why none does.

## 2. Modules

| module | what it is |
|---|---|
| `OffscreenAreas` | the manager: one action per entry point, plus one for `malloc` failing after eviction |
| `OffscreenList` | the same manager with its list of linked records, each iteration of the code's loops a step, implementing `OffscreenAreas` |
| `OffscreenPool` | what the manager promises: aligned blocks, apart, in place until released |
| `OffscreenRefinement` | the manager under a refinement mapping to the pool |
| `ExaPixmaps` | the pixmap callbacks and the extension's reply; memory comes from `OffscreenPool` |
| `GpuOps` | operations, flushing and waiting, with a GPU that finishes when it likes |
| `ExaScreen` | `ExaPixmaps` and `GpuOps` on one screen, with the CPU's access to pixmaps |
| `CompositeCheck` | the decisions about a composite and what the GPU is set up with |
| `XvPort` | the Xv port, a call cut where it takes or releases the mutex |
| `XvAdaptor` | the adaptor: `XvPort` with the queries about images between its calls |
| `LifeCycle` | PreInit, ScreenInit with all its failures, CloseScreen, resets |
| `MC*` | values of the constants for TLC |
| `*_proofs` | theorems and proofs, each extending the module it is about |

`ExaPixmaps` composes the pixmaps with the manager: it knows the manager by
`OffscreenPool` only, which `OffscreenAreas` is shown to implement. So the two
halves together say that pixmaps on the real manager behave so. The manager
itself is there on three levels: linked list, areas, pool. `ExaScreen`
extends both `GpuOps` and `ExaPixmaps` and joins their actions: the buffers of
an operation are those of live records. `GpuOps` and
`CompositeCheck` share the boundary PrepareComposite: `CompositeCheck` shows
that it never refuses, `GpuOps` still has the refusal, as the code does, and
shows that it would do no harm.

### Correspondence to the code

*`OffscreenAreas`.* The list is the function `areas` from `base_offset` to the
rest of the record, ordered by address as the code's list is; next and previous
are the areas that begin where this one ends and the reverse. An allocation
chooses a region `<<lo, hi, n>>`: first fit gives one free area (lines
309-325), the eviction search the cheapest candidate (337-375) and the region it
has grown to once areas were kicked out and merged with their neighbours
(391-404). `Place` splits the hole off the start and the block off the end
(406-445). `HeadSize` and `TailSize` are the two ways in which the code reckons
alignment loss; `CRem` is C's remainder. The score compares doubles; the model
has exact scores (`ScoreScale` is a common multiple of the ages) and takes any
of several minima. An area of age 0 divides by zero in the code, which gives
infinity: it is no candidate. `want` is a history field: the size asked for.

*`OffscreenList`.* `list.node` maps each record allocated to its fields, `next`
and `prev` included; `list.head` is `offScreenAreas`, whose `prev` is the tail.
`pc` names the loop that a call is in and `area`, `need`, `begin`, `scan`,
`best` are the locals of `OffscreenAlloc`. First fit (309-325) is `FitNext`,
`FitFound`, `FitNone`. The search over `begin` (337-375) is `SkipLocked` and
`ScanFrom`, its inner loop `ScanNext`, `ScanEnough` and `ScanFails`, which moves
the cursor of the outer loop to the locked area it met (`Resume`). `NoSpace` and
`Choose` end it, `KickOut` is the loop that makes room (399-404), `Take` and
`TakeNoMemory` split and mark (406-445), `SwapKickOut` and `SwapFini` are
`OffscreenSwapOut`. `Freed` and `Merge` are a free with its merges. The
variables of `OffscreenAreas` are carried along and change when a call returns,
to what the list then stands for, so that the refinement mapping is the identity.

*`ExaPixmaps`.* `IntRange` is the range of a C int: sizes are computed modulo it
and compared by the manager as unsigned, so that an overflow shows as a size too
large or as none. `Reply` has the three answers of the extension. `Modified` is ModifyPixmapHeader field by field; `CreatePixmap2`
has the three outcomes of the code (header, video, system memory). That the pool
may refuse although it has room covers every reason the manager may have.
Depth, the client's byte order and the private pointers are left out.

*`GpuOps`.* `gpuSynced`, `gpuOpSetup` and the two buffers are the driver's;
`setup`, `batch` and `running` are the z160 library's context, and `op` and
`needsSync` EXA's, all external and modelled from how the driver uses them. A
rectangle is drawn with whatever the context is set up for. Colours, rectangles
and pixel formats are abstracted; refusals that change nothing are no action,
those that leave something behind are (`Prepare*Refused`).

*`ExaScreen`.* `accessed` is the pixmap between EXA's PrepareAccess and
FinishAccess (external). `PixmapCall` does not look at the GPU, as the code does
not. `Buffer` has the height in whole tiles. `ServerFits` is what is asked of
the server and the operating system: a header pointed into video memory has all
its tiles there, and memory elsewhere has no byte there. ScreenInit and CloseScreen connect
and release the GPU and open and close the manager; the manager may stay closed,
since nobody looks at the result of setting it up.

*`CompositeCheck`.* A picture has a format, a way of repeating, perhaps a
transform and component alpha, and a drawable: a place and a size in the pixmap
behind it. A pixmap is all of itself; a window may be part of its pixmap and
reach beyond its edges. The code looks at both: `Z160EXAGetPicturePixmap` gives
the pixmap, whose limits, area, `usable` (in video memory, with address and
pitch that suit the GPU) and buffer count; whether a source is a single pixel
is asked of the drawable. `Rendered` is the pixel of the pixmap that the Render
protocol takes for a pixel of the picture, `Drawn` the one the GPU's blends
take, told the place in the pixmap. `Asked` says for which pixels: EXA clips
what is drawn to a source that does not repeat.

*`XvPort`.* `pc` marks the places between which the mutex is held or free.
`fields` are the port's copy of the last image, `handle` what the live task was
set up with, `tasks` the tasks alive in the library. The uninitialised variable
at line 484 is a choice between both formats. The frame buffer device found when
the adaptor was set up can be opened. `KeptKey` cuts a key down to 16 bits and
`RGB565TOCOLORKEY` widens each channel by repeating its highest bits, as the
macro's shifts do.

*`XvAdaptor`.* `PackedBits` and `PlanarImages` are the table of images that
clients are shown, `LayoutOf` what QueryImageAttributes answers; the two are
separate tables in the code, and `PlanesHold` relates them. `reply` is kept until
the next call and forgotten then.

*`LifeCycle`.* One action per step of ScreenInit that can fail by itself;
`pc` is the next step. A failing ScreenInit ends the server, without a call of
CloseScreen, as the X server does; a reset drops all extensions. CloseScreen is
five actions in the code's order: EXA's part with the manager (`CloseExa`), the
wait and the disconnection (`CloseContext`), the mode, the mapping, and the
wrapped CloseScreen; the GPU may come to rest between any two.

## 3. Environment assumed

- One dispatch thread. The comment at `imx_xv_ipu.c:58` speaks of one process
  and `MXXvMutex` is released between the test of `isInit` (541) and its use
  (444); with several threads two tasks could be started. The server has one,
  so the model has one caller and uses the mutex for what it could break: a call
  that does not give it back.
- The server re-points headers it created without pixels, never a pixmap that
  was given memory of its own, and destroys pixmaps before CloseScreen.
- EXA's protocol: Prepare, rectangles, Done, one operation at a time, and
  `exaMarkSync` at its end; a composite is preceded by a Check that agreed, and
  every picture has a drawable (the contract at `imx_exa_z160.c:1592-1614`).
- EXA clips to sources and masks that do not repeat, and gives the driver places
  in the pixmap, not in the drawable. It tries the driver also with repeating
  sources of which more than one period is drawn.
- `exaDriverFini` makes EXA let go of the driver's hooks, so that nothing calls
  them between it and the wrapped CloseScreen (`imx_drv.c:746`).
- The constants of the z160 library (alignments, limits) are not in the
  repository. `ExaPixmaps` assumes that a row of tiles is a whole number of
  pitch units and that video memory starts aligned.

## 4. Runs

| run | question | bounds, and why they are enough |
|---|---|---|
| `offscreen_driver` | Used as the driver uses it (all requests locked), is every block inside its area, are locked areas left alone, and is the manager an `OffscreenPool`? | 20 bytes from an unaligned base, sizes 3, 4, 6, alignment 4: up to five areas, alignment loss at both ends, a full pool, fragmentation |
| `offscreen_list` | The linked list, loop by loop, with evictable requests too: `TypeOK`, `Tiling`, `NoAdjacentFree`, `FreeCounted`, `NoSpuriousFailure`; do the links stay those of one list (`WellLinked`), do the loops find what there is to find (`SearchComplete`) and kick out only what may be (`AssertsHold`), and is `OffscreenAreas` implemented? | 11 bytes from an unaligned base, sizes 0, 3, 4, 6: evictions of one and of several areas, with free neighbours on either side and locked areas between; the counter wraps at 4, so ages repeat and reach 0; as many records as a state needs; the view forgets which memory a record has, which decides nothing |
| `offscreen_ragged` | finding: is `OffsetInside`, which `OffscreenValidate` asserts, true of evictable requests smaller than their alignment? No | 16 bytes, sizes 1 and 4 |
| `exa_pixmaps` | Do addresses agree, areas not leak, tiles and clients stay inside and apart? | 3 pixmaps, 2 by 2 tiles, 21 bytes of pool: the pool fills, pixmaps go to both memories, headers move between the screen, the pool and memory that begins just past video memory; ints of 5 bits, so that sizes overflow to nothing, to less than nothing and to a small area |
| `exa_screen` | No race, no rectangle with another's set up, nothing unflushed, GPU at rest when released, and no byte in use by CPU and GPU at once (`NoSharedByte`)? | 2 pixmaps, headers or in the pool, which holds one: the memory of one goes to the other while the GPU draws; any number of operations |
| `composite` | Does Prepare accept what Check did, and does the GPU read and sample as Render would? Of tiled sources, exactly those that fill their pixmap | all 18 formats, sizes 1 to 3 and beyond the limit, all ways of repeating; windows at, before and past the corner of their pixmap, smaller, as large and larger |
| `composite_const` | finding: is only a 1x1 source drawn as one colour? No, every odd by odd one | as above |
| `composite_repeat` | finding: is the way of repeating respected? No | as above |
| `xv_port` | One task, right target, right key, a buffer, mutex returned, PutImage returns; do the layouts told hold their images? | images that differ in one respect each, two widths that the code rounds, 2 buffers, keys outside and inside the range and two that differ in the lowest bit of a channel; all formats with an odd side and one above the limit |
| `xv_source` | finding: are all changes of size found? Not those of the source | as above |
| `life_cycle` | Does each generation start clean, is acceleration all or nothing, is the GPU quiet when memory goes? | 6 generations, every step failing, the GPU drawing or not when CloseScreen begins |
| `life_accel` | finding: is acceleration, when in use, set up with EXA? Not when `exaDriverAlloc` fails | as above |

The life cycle runs do not check for deadlock: the server may end. Every property
of a passing run has a mutant of the code in `PROJECT.json` that the property
catches (the definitions marked `Mutation` in the modules).

## 5. Fairness

Only the Xv modules have a liveness property, `PutImageReturns`, and only the step of a
call in progress is weakly fair: the thread inside the driver keeps running, as
no step of it waits for anything but the mutex, and the library calls return.
Nothing is assumed about calls being made. The safety modules state no fairness;
the GPU of `GpuOps` need never finish.

## 6. Proofs

TLAPS proves, for all values of the constants that satisfy the named `ASSUME`s:

- `OffscreenAreas_proofs`, for any requests: `TypeOK`, `Tiling`,
  `NoAdjacentFree`, `FreeCounted`, `EvictsOnlyRemovable`, `LockedKept`. The
  inductive invariant `IInv` is the layout (types, tiling, no two free
  neighbours) with the count: tiling alone is not inductive since merging looks
  one area to each side, which is enough only when free areas never touch; the
  count then changes by one for the area freed and by one for each merge. Every
  action rewrites a *block*, a run of whole areas without a free neighbour:
  lemmas `FreedBlock` and `RegionBlock` show that the code's searches arrive at
  one, `CoalesceLayout`, `PlaceLayout`, `CoalesceCount` and `PlaceCount` that
  rewriting one keeps the invariant. (`EvictsOnlyRemovable` is proved only; the
  runs check `AssertsHold` and `LockedKept` instead.)
- `NoSpuriousFailure`, for any requests: the area in which an aligned range
  without locked bytes begins is a candidate (`RoomIsCandidate`), among the
  candidates is a cheapest one (`CheapestFinds`) and kicking out from it ends
  (`EvictingFinds`). Scores are sums over areas, defined by recursion on finite
  sets; that there is exactly one such sum, and that it splits, is had from the
  well-foundedness of the order on the natural numbers (a set of
  counterexamples has a first), which replaces an induction theorem.
- Under `DriverUse` (all requests are locked and the screen takes some memory):
  `AllocContained` and `OffsetInside`, since nothing is evictable, so that an
  allocation which first fit refuses is refused by the search too
  (`NothingToEvict`, by `HeadFitIsTailFit`: what fits counted from the start fits
  counted from the end) and the mismatch behind finding `offscreen_ragged` is
  never met; `DriverNeverRefused`, no refusal while there is room, whatever the
  ages; and `ManagerImplementsPool`.
- `OffscreenList_proofs`: `ListImplementsAreas`, for every pool, every set of
  requests and any memory that `malloc` may return, with `WellLinked`,
  `SearchComplete` and `AssertsHold`. The inductive invariant `ListInv` says for
  each loop what its iterations so far have established: that no free area before
  `area` fits (`FitInv`); that no candidate before `begin` is better than `best`
  (`SearchInv`); that what the scan has added up is the size and the score of the
  areas from `begin` to `scan.at`, none locked, and too little so far (`ScanInv`);
  that the area being grown is a block of the old areas, merged, with the count
  that this leads to (`TakeInv`). This is needed because the list changes before
  the call returns, while the areas change only then. The scan that jumps over
  areas is right because any area between `begin` and the locked one that stopped
  the scan would be stopped by it as well (`NoneSkipped`, by `HeadMonotone`).
  `ListImplementsPool` follows: used as by the driver, the code with its links and
  loops keeps the promise of `OffscreenPool`.
- `ExaPixmaps_proofs`: all six invariants of the run, for all tile sizes,
  memories and widths of the int. The inductive invariant `PixInv` relates each
  record to the block it owns (its address, pitch and height in tiles) and keeps
  blocks apart; a size that overflowed is refused by the pool or fits its block.
- `GpuOps_proofs`: the five invariants that run `exa_screen` checks of it. `GpuInv`
  relates the two flags to the work handed over (`RunningIsKnown`) and the late
  set up to the operation that asked for it (`SetupIsAsked`).
- `ExaScreen_proofs`: each half of `ExaScreen` behaves as its own module says
  (`PixmapsAsAlone`, `GpuAsAlone`: a step of the screen is a step or a stutter of
  each), so that what is proved of the two holds of the screen
  (`ScreenKeepsPixmaps`, `ScreenKeepsOperations`). `AccessAlwaysWaits`: the CPU
  works on a pixmap in video memory only after the wait has been asked for.
  `NeverSharesAByte` puts all of it together: while the server keeps
  `ServerFits`, whatever the GPU has still to read or draw lies in video memory,
  where the CPU works only once the GPU is at rest. `ServerFits` is about what the
  driver cannot see, the server's own headers and the memory of the process;
  it holds in all states of run `exa_screen`.
- `XvPort_proofs`: the six invariants of the port, from what a call knows at each
  of its points about task, fields, key and mutex; that different keys stay
  different when they are widened, from arithmetic on the channels; that the
  adaptor keeps all of this; and `PlanesHold` for every width and height.
  `CallsNeverWait` and `CallsComeToAnEnd` are what safety says of
  `PutImageReturns`: the next step of a call never waits for the mutex, and each
  step lowers `StepsLeft`, in which a task that does not fit counts for more than
  none, so that going back to the beginning is progress and happens once at most.
- `CompositeCheck_proofs`: the three invariants of the run, for pictures of any
  size and place; the table of formats is checked line by line (`FormatsAgree`).
  `SourceAssumption` (drawables and pixmaps have pixels, all compared) is needed
  for one half of `SampledAsRendered` only: that a tiled source which is not all
  of its pixmap is drawn wrongly, by the pixel at which the two periods part
  (`TilesOfWhole`, `ColourOfFirst`).
- `LifeCycle_proofs`: the four invariants of the run, over any number of
  generations. `IInv` says what exists at each part of ScreenInit and of
  CloseScreen; the GPU draws only while it is connected (`DrawsWhenUp`), and
  CloseScreen has disconnected it before it unmaps (`Closing`).

Only model-checked: `PutImageReturns` itself, since liveness under fairness is
out of the prover's reach. Every other property of a passing run is stated by a
theorem; the hypotheses that some of them have are those named above,
`DriverUse` for the manager and `ServerFits` for the screen.

## 7. Findings

1. `offscreen_ragged` (`imx_exa_offscreen.c:412`): evicting for a request
   smaller than its alignment can return an offset outside the area. No caller
   in the driver does this.
2. `xv_source` (`imx_xv_ipu.c:561`): "Check Size Changed" compares the target
   only; a stream whose source size or format changes is read in the old layout.
3. `composite_const` (`imx_exa_z160.c:385`): the test for 1x1 holds for all odd
   by odd sources.
4. `composite_repeat` (`imx_exa_z160.c:1910`): padded and reflected sources are
   drawn as tiles, and a window that repeats is drawn with the period and the
   origin of the pixmap behind it (`imx_exa_z160.c:167-183, 514`). The second is
   the equivalence in `SampledAsRendered` and its theorem.
5. `life_accel` (`imx_exa_z160.c:2303`): without memory for EXA's record
   acceleration is reported as in use.

## 8. Not modelled

- Probe, PreInit's options and checks of the hardware: straight-line code before
  anything runs; its outcome is a free choice in `LifeCycle`.
- `MXQueryBestSize`, which returns its arguments, `MXGetPortAttribute`, which
  returns the key kept, and the tables of visuals and encodings; the solid fill's
  conversion of colours, a shift per format.
- Picture filters, which the driver never looks at; switching virtual terminals,
  which fbdevhw does; dispatch, request lengths and byte swapping in the
  extension, which have no state.
- A restart of the server with video playing: the server stops the video before
  it closes the screen, by a rule of its own that the source does not show.
- Code that is never executed: `IMX_EXA_FindAreaToEvict` and its eviction costs,
  the software fallback behind `pGC`, debug and instrumentation switches.
- Build, packaging and the manual page (which is still that of fbdev).

## 9. Plan

Done: every component that keeps state, with proofs of all safety properties
that the runs check, and the compositions: list, areas and pool; pixmaps on the
pool; pixmaps with the GPU; port with adaptor. In the order of importance, next:

1. Pixmaps on the areas of the real manager instead of on the pool: the composed
   system, and that it behaves as `ExaPixmaps`, by `ManagerImplementsPool`.
2. `LifeCycle` with `ExaScreen`: generations of a screen that is drawn on, so
   that `QuietWhenUnmapped` follows from `ReleasedIsIdle`.
3. The extension's dispatch and the colour conversion of PrepareSolid as pure
   algorithms.
