---------------------------- MODULE CompositeCheck ----------------------------
(***************************************************************************)
(* How src/src/imx_exa_z160.c decides about a Render composite.  EXA asks  *)
(* CheckComposite first; when it agrees, PrepareComposite looks the        *)
(* pictures up again and picks one of the blends of the GPU, and no second *)
(* opinion is asked for: whatever Check accepted is drawn that way.        *)
(*                                                                         *)
(* A picture is [format, x, y, w, h, repeat, transform, componentAlpha,    *)
(* pixmap]: a drawable of w by h pixels that begins at x, y of its backing *)
(* pixmap [w, h, usable].  A pixmap is its own drawable and fills itself;  *)
(* a window has any place in the pixmap behind it and may stick out of it. *)
(* usable: in video memory, at an address and pitch that suit the GPU.  As *)
(* the contract of EXA says, every picture has a drawable.                 *)
(***************************************************************************)
EXTENDS Integers

CONSTANTS
  Ops,        \* Render operators asked for
  Sources,    \* source pictures
  Masks,      \* mask pictures, NoPicture among them
  Targets,    \* target pictures
  NoPicture,  \* no mask
  MinArea,    \* IMX_EXA_MIN_PIXEL_AREA_COMPOSITE
  MaxSide,    \* Z160_MAX_WIDTH, Z160_MAX_HEIGHT
  Reach       \* pixels are compared up to this coordinate

ASSUME SizeAssumption == {MinArea, MaxSide, Reach} \subseteq Nat

\* Drawables and pixmaps have pixels, and Reach is beyond all of them.
ASSUME SourceAssumption ==
  \A p \in Sources :
    /\ {p.x, p.y} \subseteq Int
    /\ {p.w, p.h, p.pixmap.w, p.pixmap.h} \subseteq 1 .. Reach

VARIABLES
  request,  \* the composite EXA is working on
  phase,    \* how far it is
  setup     \* the blend of the GPU context (external)

vars == <<request, phase, setup>>

NoRequest ==
  [op |-> 0, src |-> NoPicture, mask |-> NoPicture, dst |-> NoPicture]

Requests == [op : Ops, src : Sources, mask : Masks, dst : Targets]

-----------------------------------------------------------------------------
(* The formats of Render (external) and the GPU's. *)

Pict(bits, alpha, order) == [bits |-> bits, alpha |-> alpha, order |-> order]

PictFormats ==
  [a8       |-> Pict(8, 8, "a"),      g8       |-> Pict(8, 0, "g"),
   a1       |-> Pict(1, 1, "a"),      r8g8b8   |-> Pict(24, 0, "rgb"),
   r5g6b5   |-> Pict(16, 0, "rgb"),   b5g6r5   |-> Pict(16, 0, "bgr"),
   a4r4g4b4 |-> Pict(16, 4, "rgb"),   x4r4g4b4 |-> Pict(16, 0, "rgb"),
   a4b4g4r4 |-> Pict(16, 4, "bgr"),   x4b4g4r4 |-> Pict(16, 0, "bgr"),
   a1r5g5b5 |-> Pict(16, 1, "rgb"),   x1r5g5b5 |-> Pict(16, 0, "rgb"),
   a1b5g5r5 |-> Pict(16, 1, "bgr"),   x1b5g5r5 |-> Pict(16, 0, "bgr"),
   a8r8g8b8 |-> Pict(32, 8, "rgb"),   x8r8g8b8 |-> Pict(32, 0, "rgb"),
   a8b8g8r8 |-> Pict(32, 8, "bgr"),   x8b8g8r8 |-> Pict(32, 0, "bgr")]

Config(format, swapRB, opaque) ==
  [format |-> format, swapRB |-> swapRB, opaque |-> opaque]

Configs ==
  [a8       |-> Config("A8", FALSE, FALSE),
   g8       |-> Config("8", FALSE, FALSE),
   r5g6b5   |-> Config("0565", FALSE, FALSE),
   b5g6r5   |-> Config("0565", TRUE, FALSE),
   a4r4g4b4 |-> Config("4444", FALSE, FALSE),
   x4r4g4b4 |-> Config("4444", FALSE, TRUE),
   a4b4g4r4 |-> Config("4444", TRUE, FALSE),
   x4b4g4r4 |-> Config("4444", TRUE, TRUE),
   a1r5g5b5 |-> Config("1555", FALSE, FALSE),
   x1r5g5b5 |-> Config("1555", FALSE, TRUE),
   a1b5g5r5 |-> Config("1555", TRUE, FALSE),
   x1b5g5r5 |-> Config("1555", TRUE, TRUE),
   a8r8g8b8 |-> Config("8888", FALSE, FALSE),
   x8r8g8b8 |-> Config("8888", FALSE, TRUE),
   a8b8g8r8 |-> Config("8888", TRUE, FALSE),
   x8b8g8r8 |-> Config("8888", TRUE, TRUE)]

\* What the GPU is told about is the pixmap behind the drawable.
Z160EXAGetPicturePixmap(p) == p.pixmap

\* Z160GetPictureConfig succeeds, ...
HasConfig(p) ==
  Z160EXAGetPicturePixmap(p).usable /\ p.format \in DOMAIN Configs

\* Mutation: red and blue the wrong way round.
BufferUnswapped(p) ==
  LET pixmap == Z160EXAGetPicturePixmap(p)
  IN  [config |-> [Configs[p.format] EXCEPT !.swapRB = FALSE],
       w |-> pixmap.w, h |-> pixmap.h, alpha4 |-> p.componentAlpha]

\* ... and this is the buffer it describes.
Buffer(p) ==
  LET pixmap == Z160EXAGetPicturePixmap(p)
  IN  [config |-> Configs[p.format],
       w |-> pixmap.w, h |-> pixmap.h, alpha4 |-> p.componentAlpha]

-----------------------------------------------------------------------------
(* CheckComposite. *)

Blend(op) ==
  CASE op = 1 -> "src"          [] op = 3  -> "over"
    [] op = 5 -> "in"           [] op = 6  -> "in_reverse"
    [] op = 8 -> "out_reverse"  [] op = 12 -> "add"
    [] OTHER  -> "unknown"

CanAccelerate(p) ==
  LET pixmap == Z160EXAGetPicturePixmap(p)
  IN  pixmap.usable /\ pixmap.w <= MaxSide /\ pixmap.h <= MaxSide

Repeats(p) == p.repeat # "none"

\* Small pixmaps are left to the CPU.
LargeEnough(p) ==
  LET pixmap == Z160EXAGetPicturePixmap(p)
  IN  pixmap.w * pixmap.h >= MinArea

\* Mutation: a transform is overlooked.
SourceSupportedBent(p) ==
  /\ CanAccelerate(p)
  /\ Repeats(p) \/ LargeEnough(p)
  /\ HasConfig(p)

SourceSupported(p) ==
  /\ CanAccelerate(p)
  /\ Repeats(p) \/ LargeEnough(p)
  /\ HasConfig(p)
  /\ ~ p.transform

\* Mutation: the format is not looked up.
MaskSupportedAnyFormat(p) ==
  /\ CanAccelerate(p)
  /\ LargeEnough(p)
  /\ PictFormats[p.format].alpha # 0
  /\ ~ p.transform
  /\ ~ Repeats(p)

MaskSupported(p) ==
  /\ CanAccelerate(p)
  /\ LargeEnough(p)
  /\ HasConfig(p)
  /\ PictFormats[p.format].alpha # 0
  /\ ~ p.transform
  /\ ~ Repeats(p)

TargetSupported(p) ==
  /\ CanAccelerate(p)
  /\ LargeEnough(p)
  /\ HasConfig(p)

Z160EXACheckComposite(r) ==
  /\ Blend(r.op) # "unknown"
  /\ SourceSupported(r.src)
  /\ r.mask = NoPicture \/ MaskSupported(r.mask)
  /\ TargetSupported(r.dst)

CheckComposite ==
  /\ phase = "idle"
  /\ request' \in Requests
  /\ phase' = IF Z160EXACheckComposite(request') THEN "checked" ELSE "software"
  /\ UNCHANGED setup

-----------------------------------------------------------------------------
(* PrepareComposite.  What it leaves in the GPU context when it refuses is *)
(* in GpuOps.                                                              *)

Bit0(n) == n % 2

\* The lowest bit of width AND height, of the drawable this time.
Z160IsDrawablePixelOnly(p) == Bit0(p.w) = 1 /\ Bit0(p.h) = 1

SourceKind(p) ==
  IF ~ Repeats(p) THEN "image"
  ELSE IF Z160IsDrawablePixelOnly(p) THEN "const" ELSE "pattern"

NoSetup == [kind |-> "none"]

PrepareComposite ==
  /\ phase = "checked"
  /\ IF \A p \in {request.dst, request.src, request.mask} \ {NoPicture} :
          HasConfig(p)
     THEN /\ phase' = "prepared"
          /\ setup' = [kind  |-> SourceKind(request.src),
                       blend |-> Blend(request.op),
                       dst   |-> Buffer(request.dst),
                       src   |-> Buffer(request.src),
                       mask  |-> IF request.mask = NoPicture THEN NoPicture
                                 ELSE Buffer(request.mask)]
     ELSE /\ phase' = "refused"
          /\ UNCHANGED setup
  /\ UNCHANGED request

\* Drawn, by the GPU or by the CPU.
Finish ==
  /\ phase \in {"prepared", "refused", "software"}
  /\ phase' = "idle"
  /\ request' = NoRequest
  /\ setup' = NoSetup

Init ==
  /\ request = NoRequest
  /\ phase = "idle"
  /\ setup = NoSetup

Next ==
  \/ CheckComposite
  \/ PrepareComposite
  \/ Finish

Spec == Init /\ [][Next]_vars

-----------------------------------------------------------------------------
(***************************************************************************)
(* What CheckComposite accepts, PrepareComposite does not refuse any more: *)
(* when it does, the GPU context is left with a new target and an old      *)
(* source.                                                                 *)
(***************************************************************************)
PrepareAccepts == phase # "refused"

\* How the GPU reads the pixels of a buffer.
GpuPict(b) ==
  LET c == b.config
      order == IF c.swapRB THEN "bgr" ELSE "rgb"
  IN  CASE c.format = "A8"   -> Pict(8, 8, "a")
        [] c.format = "8"    -> Pict(8, 0, "g")
        [] c.format = "0565" -> Pict(16, 0, order)
        [] c.format = "4444" -> Pict(16, IF c.opaque THEN 0 ELSE 4, order)
        [] c.format = "1555" -> Pict(16, IF c.opaque THEN 0 ELSE 1, order)
        [] c.format = "8888" -> Pict(32, IF c.opaque THEN 0 ELSE 8, order)

ReadsAs(b, p) ==
  /\ GpuPict(b) = PictFormats[p.format]
  /\ b.w = p.pixmap.w /\ b.h = p.pixmap.h
  /\ b.w <= MaxSide /\ b.h <= MaxSide

(***************************************************************************)
(* The GPU reads and writes the pixmap of every picture in the format the  *)
(* picture has: as many bits, alpha where the format has alpha and only    *)
(* there, red and blue in the right order, all of the pixmap and within    *)
(* the limits of the GPU; and a mask is used, by component if it says.     *)
(***************************************************************************)
ReadAsPictured ==
  phase = "prepared" =>
    /\ ReadsAs(setup.src, request.src)
    /\ ReadsAs(setup.dst, request.dst)
    /\ IF request.mask = NoPicture
       THEN setup.mask = NoPicture
       ELSE /\ ReadsAs(setup.mask, request.mask)
            /\ setup.mask.alpha4 = request.mask.componentAlpha

Clear == <<-1, -1>>

\* Which pixel of the pixmap Render takes for pixel x, y of a source, ...
Rendered(p, x, y) ==
  LET at == IF p.transform THEN <<2 * x, y>> ELSE <<x, y>>
      Pad(v, n) == IF v < n THEN v ELSE n - 1
      Reflect(v, n) == IF v % (2 * n) < n THEN v % n ELSE n - 1 - (v % n)
      Repeated(v, n) ==
        CASE p.repeat = "none"    -> v
          [] p.repeat = "normal"  -> v % n
          [] p.repeat = "pad"     -> Pad(v, n)
          [] p.repeat = "reflect" -> Reflect(v, n)
  IN  <<p.x + Repeated(at[1], p.w), p.y + Repeated(at[2], p.h)>>

\* ... and which the GPU takes.  EXA hands it the place in the pixmap; one
\* colour is drawn without a place.
Drawn(kind, b, p, x, y) ==
  LET at == <<p.x + x, p.y + y>>
      Inside == at[1] \in 0 .. b.w - 1 /\ at[2] \in 0 .. b.h - 1
  IN  CASE kind = "image"   -> IF Inside THEN at ELSE Clear
        [] kind = "const"   -> <<0, 0>>
        [] kind = "pattern" -> <<at[1] % b.w, at[2] % b.h>>

\* The GPU is asked for pixel x, y of a source: EXA clips what is drawn to a
\* source that does not repeat, and to what there is of it in the pixmap.
Asked(p, x, y) ==
  Repeats(p) \/ /\ x < p.w /\ p.x + x \in 0 .. p.pixmap.w - 1
                /\ y < p.h /\ p.y + y \in 0 .. p.pixmap.h - 1

SameSamples(kind, b, p) ==
  \A x, y \in 0 .. Reach :
    Asked(p, x, y) => Drawn(kind, b, p, x, y) = Rendered(p, x, y)

FillsPixmap(p) ==
  /\ p.x = 0 /\ p.w = p.pixmap.w
  /\ p.y = 0 /\ p.h = p.pixmap.h

FirstPixel(p) ==
  /\ p.x = 0 /\ p.w = 1
  /\ p.y = 0 /\ p.h = 1

(***************************************************************************)
(* The GPU takes the pixels that Render would: always for masks and for    *)
(* sources that do not repeat, windows included.  Of the sources that      *)
(* repeat as tiles, it does so for those that are all of their pixmap and  *)
(* for no others: a window that repeats comes out with the period and the  *)
(* origin of the pixmap behind it.  Drawn as one colour, only the first    *)
(* pixel of a pixmap comes out right.                                      *)
(***************************************************************************)
SampledAsRendered ==
  phase = "prepared" =>
    /\ request.src.repeat = "none"
         => SameSamples(setup.kind, setup.src, request.src)
    /\ request.src.repeat = "normal"
         => (SameSamples(setup.kind, setup.src, request.src)
               <=> IF setup.kind = "const" THEN FirstPixel(request.src)
                   ELSE FillsPixmap(request.src))
    /\ request.mask # NoPicture
         => SameSamples("image", setup.mask, request.mask)

(***************************************************************************)
(* Only a source of a single pixel is drawn as one colour.                 *)
(***************************************************************************)
ConstIsOnePixel ==
  phase = "prepared" /\ setup.kind = "const" =>
    request.src.w = 1 /\ request.src.h = 1

(***************************************************************************)
(* Whatever way a source repeats, the GPU repeats it that way.             *)
(***************************************************************************)
RepeatRespected ==
  phase = "prepared" /\ setup.kind = "pattern" =>
    SameSamples("pattern", setup.src, request.src)
=============================================================================
