------------------------ MODULE CompositeCheck_proofs ------------------------
(***************************************************************************)
(* Proofs about CompositeCheck, for all pictures, operators and limits.    *)
(*                                                                         *)
(* CheckComposite and PrepareComposite look the pictures up separately.    *)
(* IInv carries what the first found out to the second, and what the       *)
(* second set up to the rectangles.                                        *)
(***************************************************************************)
EXTENDS CompositeCheck, TLAPS

\* What PrepareComposite gives the GPU for a request.
SetupOf(r) ==
  [kind  |-> SourceKind(r.src),
   blend |-> Blend(r.op),
   dst   |-> Buffer(r.dst),
   src   |-> Buffer(r.src),
   mask  |-> IF r.mask = NoPicture THEN NoPicture ELSE Buffer(r.mask)]

IInv ==
  /\ phase # "refused"
  /\ phase \in {"checked", "prepared"} => Z160EXACheckComposite(request)
  /\ phase = "prepared" => setup = SetupOf(request)
  /\ phase \in {"checked", "prepared"} => request.src \in Sources

\* Check looks every picture up that Prepare looks up.
LEMMA AcceptedHaveConfig ==
  ASSUME NEW r, Z160EXACheckComposite(r)
  PROVE  \A p \in {r.dst, r.src, r.mask} \ {NoPicture} : HasConfig(p)
BY DEF Z160EXACheckComposite, SourceSupported, MaskSupported, TargetSupported

LEMMA InductiveInit == Init => IInv
BY DEF Init, IInv

LEMMA InductiveStep == IInv /\ [Next]_vars => IInv'
<1> SUFFICES ASSUME IInv, [Next]_vars PROVE IInv'
  OBVIOUS
<1>1. CASE CheckComposite
  <2>1. phase' = "checked" => Z160EXACheckComposite(request')
    BY <1>1 DEF CheckComposite
  <2>2. phase' \in {"checked", "software"}
    BY <1>1 DEF CheckComposite
  <2>3. request'.src \in Sources
    BY <1>1 DEF CheckComposite, Requests
  <2> QED
    BY <2>1, <2>2, <2>3 DEF IInv
<1>2. CASE PrepareComposite
  <2>1. /\ Z160EXACheckComposite(request) /\ request' = request
        /\ request.src \in Sources
    BY <1>2 DEF PrepareComposite, IInv
  <2>2. \A p \in {request.dst, request.src, request.mask} \ {NoPicture} :
          HasConfig(p)
    BY <2>1, AcceptedHaveConfig
  <2>3. phase' = "prepared" /\ setup' = SetupOf(request)
    BY <1>2, <2>2 DEF PrepareComposite, SetupOf
  <2> QED
    BY <2>1, <2>3 DEF IInv
<1>3. CASE Finish
  BY <1>3 DEF Finish, IInv
<1>4. CASE UNCHANGED vars
  BY <1>4 DEF vars, IInv
<1> QED
  BY <1>1, <1>2, <1>3, <1>4 DEF Next

-----------------------------------------------------------------------------
\* The table of formats is right in every line.
LEMMA FormatsAgree ==
  ASSUME NEW p, HasConfig(p)
  PROVE  GpuPict(Buffer(p)) = PictFormats[p.format]
<1>1. p.format \in
        {"a8", "g8", "r5g6b5", "b5g6r5", "a4r4g4b4", "x4r4g4b4", "a4b4g4r4",
         "x4b4g4r4", "a1r5g5b5", "x1r5g5b5", "a1b5g5r5", "x1b5g5r5",
         "a8r8g8b8", "x8r8g8b8", "a8b8g8r8", "x8b8g8r8"}
  BY DEF HasConfig, Configs
<1>2. Buffer(p).config = Configs[p.format]
  BY DEF Buffer
<1> USE DEF GpuPict, Configs, Config, PictFormats, Pict
<1>3. CASE p.format \in {"a8", "g8", "r5g6b5", "b5g6r5"}
  BY <1>2, <1>3
<1>4. CASE p.format \in {"a4r4g4b4", "x4r4g4b4", "a4b4g4r4", "x4b4g4r4"}
  BY <1>2, <1>4
<1>5. CASE p.format \in {"a1r5g5b5", "x1r5g5b5", "a1b5g5r5", "x1b5g5r5"}
  BY <1>2, <1>5
<1>6. CASE p.format \in {"a8r8g8b8", "x8r8g8b8", "a8b8g8r8", "x8b8g8r8"}
  BY <1>2, <1>6
<1> QED
  BY <1>1, <1>3, <1>4, <1>5, <1>6

LEMMA AcceptedReadsAs ==
  ASSUME NEW p, HasConfig(p), CanAccelerate(p)
  PROVE  ReadsAs(Buffer(p), p) /\ Buffer(p).alpha4 = p.componentAlpha
<1>1. /\ Buffer(p).w = p.pixmap.w /\ Buffer(p).h = p.pixmap.h
      /\ Buffer(p).alpha4 = p.componentAlpha
  BY DEF Buffer, Z160EXAGetPicturePixmap
<1> QED
  BY <1>1, FormatsAgree DEF ReadsAs, CanAccelerate, Z160EXAGetPicturePixmap

\* A picture that does not repeat is sampled where it lies.
LEMMA PlainSampled ==
  ASSUME NEW p, ~ p.transform, p.repeat = "none"
  PROVE  SameSamples("image", Buffer(p), p)
<1> SUFFICES ASSUME NEW x \in 0 .. Reach, NEW y \in 0 .. Reach, Asked(p, x, y)
             PROVE  Drawn("image", Buffer(p), p, x, y) = Rendered(p, x, y)
  BY DEF SameSamples
<1>1. Buffer(p).w = p.pixmap.w /\ Buffer(p).h = p.pixmap.h
  BY DEF Buffer, Z160EXAGetPicturePixmap
<1>2. Rendered(p, x, y) = <<p.x + x, p.y + y>>
  BY DEF Rendered
<1>3. p.x + x \in 0 .. p.pixmap.w - 1 /\ p.y + y \in 0 .. p.pixmap.h - 1
  BY DEF Asked, Repeats
<1> QED
  BY <1>1, <1>2, <1>3 DEF Drawn

-----------------------------------------------------------------------------
(* Tiles, along one side: a drawable of n pixels at o of m. *)

TiledAlike(o, n, m) == \A v \in 0 .. Reach : (o + v) % m = o + (v % n)

\* Tiles with the period of the pixmap are right only for the whole of it.
LEMMA TilesOfWhole ==
  ASSUME NEW o \in Int, NEW n \in 1 .. Reach, NEW m \in 1 .. Reach
  PROVE  TiledAlike(o, n, m) <=> o = 0 /\ n = m
<1> USE SizeAssumption
<1>1. o = 0 /\ n = m => TiledAlike(o, n, m)
  BY DEF TiledAlike
<1>2. ASSUME TiledAlike(o, n, m)
      PROVE  o = 0 /\ n = m
  <2>1. \A v \in 0 .. Reach : (o + v) % m \in 0 .. m - 1
    OBVIOUS
  <2>2. o \in 0 .. m - 1
    <3>1. 0 \in 0 .. Reach
      OBVIOUS
    <3>2. (o + 0) % m = o + (0 % n) /\ (o + 0) % m \in 0 .. m - 1
      BY <1>2, <2>1, <3>1 DEF TiledAlike
    <3>3. 0 % n = 0
      OBVIOUS
    <3>4. o + (0 % n) = o
      BY <3>3
    <3> QED
      BY <3>2, <3>4
  <2>3. o = 0
    <3>1. m - o \in 0 .. Reach /\ o + (m - o) = m
      BY <2>2
    <3>2. m % m = o + ((m - o) % n)
      BY <1>2, <3>1 DEF TiledAlike
    <3>3. m % m = 0 /\ (m - o) % n \in Nat
      BY <3>1
    <3> QED
      BY <2>2, <3>2, <3>3
  <2>4. m % m = m % n /\ n % m = n % n
    BY <1>2, <2>3 DEF TiledAlike
  <2>5. m % m = 0 /\ n % n = 0
    OBVIOUS
  <2>6. (n < m => n % m = n) /\ (m < n => m % n = m)
    OBVIOUS
  <2> QED
    BY <2>3, <2>4, <2>5, <2>6
<1> QED
  BY <1>1, <1>2

\* One colour, the first, is right only for the first pixel.
LEMMA ColourOfFirst ==
  ASSUME NEW o \in Int, NEW n \in 1 .. Reach
  PROVE  (\A v \in 0 .. Reach : 0 = o + (v % n)) <=> o = 0 /\ n = 1
<1> USE SizeAssumption
<1>1. ASSUME o = 0, n = 1
      PROVE  \A v \in 0 .. Reach : 0 = o + (v % n)
  BY <1>1
<1>2. ASSUME \A v \in 0 .. Reach : 0 = o + (v % n)
      PROVE  o = 0 /\ n = 1
  <2>1. 0 \in 0 .. Reach /\ 1 \in 0 .. Reach
    OBVIOUS
  <2>2. 0 = o + (0 % n) /\ 0 = o + (1 % n)
    BY <1>2, <2>1
  <2>3. 0 % n = 0
    OBVIOUS
  <2>4. o = 0
    BY <2>2, <2>3
  <2>5. 1 % n = 0
    <3>1. 1 % n \in Nat
      OBVIOUS
    <3> QED
      BY <2>2, <2>4, <3>1
  <2>6. n # 1 => 1 % n = 1
    OBVIOUS
  <2> QED
    BY <2>4, <2>5, <2>6
<1> QED
  BY <1>1, <1>2

\* A source that repeats as tiles is right when it is all of its pixmap, and
\* else wrong; as one colour, when it is the first pixel.
LEMMA TilesSampled ==
  ASSUME NEW p \in Sources, ~ p.transform, p.repeat = "normal"
  PROVE  SameSamples(SourceKind(p), Buffer(p), p)
           <=> IF SourceKind(p) = "const" THEN FirstPixel(p) ELSE FillsPixmap(p)
<1>1. /\ p.x \in Int /\ p.y \in Int
      /\ p.w \in 1 .. Reach /\ p.h \in 1 .. Reach
      /\ p.pixmap.w \in 1 .. Reach /\ p.pixmap.h \in 1 .. Reach
  BY SourceAssumption
<1>2. Buffer(p).w = p.pixmap.w /\ Buffer(p).h = p.pixmap.h
  BY DEF Buffer, Z160EXAGetPicturePixmap
<1>3. ASSUME NEW x \in 0 .. Reach, NEW y \in 0 .. Reach
      PROVE  /\ Rendered(p, x, y) = <<p.x + (x % p.w), p.y + (y % p.h)>>
             /\ Asked(p, x, y)
  <2>1. Rendered(p, x, y) = <<p.x + (x % p.w), p.y + (y % p.h)>>
    BY DEF Rendered
  <2>2. Asked(p, x, y)
    BY DEF Asked, Repeats
  <2> QED
    BY <2>1, <2>2
<1>4. 0 \in 0 .. Reach
  BY SizeAssumption
<1>5. CASE SourceKind(p) = "const"
  <2>1. SameSamples("const", Buffer(p), p)
          <=> \A x, y \in 0 .. Reach :
                0 = p.x + (x % p.w) /\ 0 = p.y + (y % p.h)
    BY <1>3 DEF SameSamples, Drawn
  <2>2. SameSamples("const", Buffer(p), p)
          <=> /\ \A x \in 0 .. Reach : 0 = p.x + (x % p.w)
              /\ \A y \in 0 .. Reach : 0 = p.y + (y % p.h)
    BY <1>4, <2>1
  <2> QED
    BY <1>1, <1>5, <2>2, ColourOfFirst DEF FirstPixel
<1>6. CASE SourceKind(p) # "const"
  <2>1. SourceKind(p) = "pattern"
    BY <1>6 DEF SourceKind, Repeats
  <2>2. SameSamples("pattern", Buffer(p), p)
          <=> \A x, y \in 0 .. Reach :
                /\ (p.x + x) % p.pixmap.w = p.x + (x % p.w)
                /\ (p.y + y) % p.pixmap.h = p.y + (y % p.h)
    BY <1>2, <1>3 DEF SameSamples, Drawn
  <2>3. SameSamples("pattern", Buffer(p), p)
          <=> TiledAlike(p.x, p.w, p.pixmap.w) /\ TiledAlike(p.y, p.h, p.pixmap.h)
    BY <1>4, <2>2 DEF TiledAlike
  <2> QED
    BY <1>1, <2>1, <2>3, TilesOfWhole DEF FillsPixmap
<1> QED
  BY <1>5, <1>6

-----------------------------------------------------------------------------
\* What Check found holds when Prepare and the rectangles follow.
THEOREM InductiveInvariant == Spec => []IInv
BY InductiveInit, InductiveStep, PTL DEF Spec

\* Prepare never refuses what Check accepted, with the target already given
\* to the GPU.
THEOREM PrepareAlwaysAccepts == Spec => []PrepareAccepts
<1>1. IInv => PrepareAccepts
  BY DEF IInv, PrepareAccepts
<1> QED
  BY <1>1, InductiveInvariant, PTL

\* The GPU reads and writes pictures in the formats they have.
THEOREM AlwaysReadAsPictured == Spec => []ReadAsPictured
<1>1. IInv => ReadAsPictured
  <2> SUFFICES ASSUME IInv, phase = "prepared"
               PROVE  /\ ReadsAs(setup.src, request.src)
                      /\ ReadsAs(setup.dst, request.dst)
                      /\ IF request.mask = NoPicture
                         THEN setup.mask = NoPicture
                         ELSE /\ ReadsAs(setup.mask, request.mask)
                              /\ setup.mask.alpha4 = request.mask.componentAlpha
    BY DEF ReadAsPictured
  <2>1. Z160EXACheckComposite(request)
    BY DEF IInv
  <2>2. /\ setup.src = Buffer(request.src)
        /\ setup.dst = Buffer(request.dst)
        /\ setup.mask = IF request.mask = NoPicture THEN NoPicture
                        ELSE Buffer(request.mask)
    BY DEF IInv, SetupOf
  <2>3. ReadsAs(setup.src, request.src) /\ ReadsAs(setup.dst, request.dst)
    BY <2>1, <2>2, AcceptedReadsAs
    DEF Z160EXACheckComposite, SourceSupported, TargetSupported
  <2>4. CASE request.mask # NoPicture
    BY <2>1, <2>2, <2>3, <2>4, AcceptedReadsAs
    DEF Z160EXACheckComposite, MaskSupported
  <2> QED
    BY <2>2, <2>3, <2>4
<1> QED
  BY <1>1, InductiveInvariant, PTL

\* The GPU takes the pixels that Render would for masks and for sources that
\* do not repeat; of those that repeat as tiles, exactly for the ones that
\* are all of their pixmap or its first pixel.
THEOREM AlwaysSampledAsRendered == Spec => []SampledAsRendered
<1>1. IInv => SampledAsRendered
  <2> SUFFICES ASSUME IInv, phase = "prepared"
               PROVE  SampledAsRendered
    BY DEF SampledAsRendered
  <2>1. Z160EXACheckComposite(request) /\ request.src \in Sources
    BY DEF IInv
  <2>2. /\ setup.kind = SourceKind(request.src)
        /\ setup.src = Buffer(request.src)
        /\ setup.mask = IF request.mask = NoPicture THEN NoPicture
                        ELSE Buffer(request.mask)
    BY DEF IInv, SetupOf
  <2>3. ~ request.src.transform
    BY <2>1 DEF Z160EXACheckComposite, SourceSupported
  <2>4. request.src.repeat = "none"
          => SameSamples(setup.kind, setup.src, request.src)
    <3> SUFFICES ASSUME request.src.repeat = "none"
                 PROVE  SameSamples(setup.kind, setup.src, request.src)
      OBVIOUS
    <3>1. setup.kind = "image"
      BY <2>2 DEF SourceKind, Repeats
    <3> QED
      BY <2>2, <2>3, <3>1, PlainSampled
  <2>5. request.src.repeat = "normal"
          => (SameSamples(setup.kind, setup.src, request.src)
                <=> IF setup.kind = "const" THEN FirstPixel(request.src)
                    ELSE FillsPixmap(request.src))
    BY <2>1, <2>2, <2>3, TilesSampled
  <2>6. request.mask # NoPicture
          => SameSamples("image", setup.mask, request.mask)
    <3> SUFFICES ASSUME request.mask # NoPicture
                 PROVE  SameSamples("image", setup.mask, request.mask)
      OBVIOUS
    <3>1. MaskSupported(request.mask)
      BY <2>1 DEF Z160EXACheckComposite
    <3>2. ~ request.mask.transform /\ request.mask.repeat = "none"
      BY <3>1 DEF MaskSupported, Repeats
    <3> QED
      BY <2>2, <3>2, PlainSampled
  <2> QED
    BY <2>4, <2>5, <2>6 DEF SampledAsRendered
<1> QED
  BY <1>1, InductiveInvariant, PTL
=============================================================================
