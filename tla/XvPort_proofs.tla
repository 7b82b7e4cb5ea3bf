---------------------------- MODULE XvPort_proofs ----------------------------
(***************************************************************************)
(* Proofs of the safety properties of XvPort and XvAdaptor, for all        *)
(* images, colour keys, numbers of buffers and sizes asked about.          *)
(*                                                                         *)
(* The properties speak of a frame that is queued and of a call that has   *)
(* returned; IInv says at every point of a call what is known of the task, *)
(* of the fields that describe it and of the mutex.                        *)
(***************************************************************************)
EXTENDS XvAdaptor, TLAPS

\* Where a call holds the mutex.
MutexKnown == locked <=> pc \in {"init", "check", "draw"}

\* Where a call knows whether there is a task.
TaskKnown ==
  /\ pc \in {"setup", "init"} => ~ isInit
  /\ pc \in {"relock", "check", "draw", "stop", "key"} => isInit

\* The fields describe the task, except when it is about to be taken down
\* because the image has changed.
FieldsDescribe == isInit /\ pc # "stop" => handle.in = fields

\* The fields agree with the call's own image.
FieldsFit ==
  pc = "draw" =>
    fields.w = image.w /\ fields.h = image.h /\ fields.pos = image.pos

\* The display has the port's key, except for a moment.
KeyKnown == (isInit \/ pc = "init") /\ pc # "key" =>
  hwKey = RGB565TOCOLORKEY(colour_key)

IInv ==
  /\ TypeOK
  /\ OneTask
  /\ BufferExists
  /\ MutexKnown
  /\ TaskKnown
  /\ FieldsDescribe
  /\ FieldsFit
  /\ KeyKnown

-----------------------------------------------------------------------------
LEMMA KeyFacts == KeyMod \in Nat \ {0} /\ KeyRange \in Nat \ {0}
<1>1. 256 * 256 \in Nat \ {0}
  OBVIOUS
<1>2. \A n \in Nat \ {0} : 256 * n \in Nat \ {0}
  OBVIOUS
<1> QED
  BY <1>1, <1>2 DEF KeyMod, KeyRange

\* Whatever a client asks for, the key kept is in range.
LEMMA KeptKeyRange ==
  ASSUME NEW v \in Keys
  PROVE  KeptKey(v) \in 0 .. KeyMod - 1
<1>1. v \in Int
  BY KeyAssumption
<1>2. Clamped(v) \in Int
  BY <1>1, KeyFacts DEF Clamped
<1> QED
  BY <1>2, KeyFacts DEF KeptKey

LEMMA DivMod ==
  ASSUME NEW y \in Nat, NEW a \in Nat \ {0}
  PROVE  /\ y \div a \in Nat
         /\ y % a \in 0 .. a - 1
         /\ y = a * (y \div a) + (y % a)
OBVIOUS

\* The channels of a key, and what they are widened to.
LEMMA Channels ==
  ASSUME NEW rgb \in 0 .. KeyMod - 1
  PROVE  /\ Red(rgb) \in 0 .. 31
         /\ Green(rgb) \in 0 .. 63
         /\ Blue(rgb) \in 0 .. 31
         /\ rgb = 2048 * Red(rgb) + 32 * Green(rgb) + Blue(rgb)
<1> DEFINE r == Red(rgb)
           g == Green(rgb)
           b == Blue(rgb)
           q == rgb \div 32
           t == q \div 64
           u == rgb % 2048
<1>1. rgb \in Nat /\ rgb < 256 * 256
  BY DEF KeyMod
<1>2. q \in Nat /\ b \in 0 .. 31 /\ rgb = 32 * q + b
  BY <1>1, DivMod DEF Blue
<1>3. t \in Nat /\ g \in 0 .. 63 /\ q = 64 * t + g
  BY <1>2, DivMod DEF Green
<1>4. r \in Nat /\ u \in 0 .. 2047 /\ rgb = 2048 * r + u
  BY <1>1, DivMod DEF Red
<1> HIDE DEF q, r, g, b, t, u
<1>5. r = t
  <2>1. /\ g \in Int /\ 0 <= g /\ g <= 63
        /\ b \in Int /\ 0 <= b /\ b <= 31
        /\ u \in Int /\ 0 <= u /\ u <= 2047
    BY <1>2, <1>3, <1>4
  <2>2. 2048 * r + u = 2048 * t + 32 * g + b
    BY <1>2, <1>3, <1>4, <2>1
  <2> QED
    BY <2>1, <2>2, <1>3, <1>4
<1>6. r \in 0 .. 31
  BY <1>1, <1>4
<1>7. rgb = 2048 * r + 32 * g + b
  BY <1>2, <1>3, <1>5
<1> QED
  BY <1>2, <1>3, <1>6, <1>7 DEF r, g, b

LEMMA WidenedFacts ==
  /\ \A c \in 0 .. 31 :
       \E q \in 0 .. 7 : Widened5(c) = 8 * c + q
  /\ \A c \in 0 .. 63 :
       \E q \in 0 .. 3 : Widened6(c) = 4 * c + q
<1>1. ASSUME NEW c \in 0 .. 31
      PROVE  c \div 4 \in 0 .. 7 /\ Widened5(c) = 8 * c + (c \div 4)
  BY DivMod DEF Widened5
<1>2. ASSUME NEW c \in 0 .. 63
      PROVE  c \div 16 \in 0 .. 3 /\ Widened6(c) = 4 * c + (c \div 16)
  BY DivMod DEF Widened6
<1> QED
  BY <1>1, <1>2

LEMMA WidenedApart ==
  /\ \A c \in 0 .. 31 : Widened5(c) \in 0 .. 255
  /\ \A c \in 0 .. 63 : Widened6(c) \in 0 .. 255
  /\ \A c, d \in 0 .. 31 : Widened5(c) = Widened5(d) => c = d
  /\ \A c, d \in 0 .. 63 : Widened6(c) = Widened6(d) => c = d
<1>1. ASSUME NEW c \in 0 .. 31
      PROVE  Widened5(c) \in 0 .. 255
  <2>1. PICK q \in 0 .. 7 : Widened5(c) = 8 * c + q
    BY WidenedFacts
  <2> QED
    BY <2>1
<1>2. ASSUME NEW c \in 0 .. 63
      PROVE  Widened6(c) \in 0 .. 255
  <2>1. PICK q \in 0 .. 3 : Widened6(c) = 4 * c + q
    BY WidenedFacts
  <2> QED
    BY <2>1
<1>3. ASSUME NEW c \in 0 .. 31, NEW d \in 0 .. 31, Widened5(c) = Widened5(d)
      PROVE  c = d
  <2>1. PICK q \in 0 .. 7 : Widened5(c) = 8 * c + q
    BY WidenedFacts
  <2>2. PICK r \in 0 .. 7 : Widened5(d) = 8 * d + r
    BY WidenedFacts
  <2>3. 8 * c + q = 8 * d + r
    BY <1>3, <2>1, <2>2
  <2> QED
    BY <2>3
<1>4. ASSUME NEW c \in 0 .. 63, NEW d \in 0 .. 63, Widened6(c) = Widened6(d)
      PROVE  c = d
  <2>1. PICK q \in 0 .. 3 : Widened6(c) = 4 * c + q
    BY WidenedFacts
  <2>2. PICK r \in 0 .. 3 : Widened6(d) = 4 * d + r
    BY WidenedFacts
  <2>3. 4 * c + q = 4 * d + r
    BY <1>4, <2>1, <2>2
  <2> QED
    BY <2>3
<1> QED
  BY <1>1, <1>2, <1>3, <1>4

LEMMA WidenedChannels ==
  ASSUME NEW rgb \in 0 .. KeyMod - 1
  PROVE  /\ Widened5(Red(rgb)) \in 0 .. 255
         /\ Widened6(Green(rgb)) \in 0 .. 255
         /\ Widened5(Blue(rgb)) \in 0 .. 255
<1>1. Red(rgb) \in 0 .. 31 /\ Green(rgb) \in 0 .. 63 /\ Blue(rgb) \in 0 .. 31
  BY Channels
<1> QED
  BY <1>1, WidenedApart

\* The bytes of a number are found again.
LEMMA ThenFacts ==
  ASSUME NEW m \in Nat, NEW b \in 0 .. 255
  PROVE  /\ Then(m, b) \in Nat
         /\ Then(m, b) % 256 = b
         /\ Then(m, b) \div 256 = m
<1> DEFINE n == Then(m, b)
           q == n \div 256
           r == n % 256
<1>1. n \in Nat /\ n = 256 * m + b
  BY DEF Then
<1> HIDE DEF n
<1>2. q \in Nat /\ r \in 0 .. 255 /\ n = 256 * q + r
  BY <1>1, DivMod
<1>3. q = m /\ r = b
  <2>1. /\ q \in Int /\ r \in Int /\ 0 <= r /\ r <= 255
        /\ b \in Int /\ 0 <= b /\ b <= 255 /\ 256 * q + r = 256 * m + b
    BY <1>1, <1>2
  <2> HIDE DEF q, r
  <2> QED
    BY <2>1
<1> QED
  BY <1>1, <1>3 DEF n

LEMMA ThenRange ==
  ASSUME NEW n \in Nat, NEW m \in Nat, NEW b \in 0 .. 255, m + 1 <= n
  PROVE  Then(m, b) \in Nat /\ Then(m, b) + 1 <= 256 * n
BY DEF Then

\* Each key that is kept is one of the display's 24 bit keys, ...
LEMMA WidenedRange ==
  ASSUME NEW rgb \in 0 .. KeyMod - 1
  PROVE  RGB565TOCOLORKEY(rgb) \in 0 .. KeyRange - 1
<1> DEFINE r == Widened5(Red(rgb))
           g == Widened6(Green(rgb))
           b == Widened5(Blue(rgb))
           n == 256
           high == Then(r, g)
           key  == Then(high, b)
<1>1. r \in 0 .. 255 /\ g \in 0 .. 255 /\ b \in 0 .. 255
  BY WidenedChannels
<1> HIDE DEF r, g, b
<1>2. r \in Nat /\ n \in Nat /\ r + 1 <= n
  BY <1>1
<1> HIDE DEF n
<1>3. high \in Nat /\ high + 1 <= 256 * n
  BY <1>1, <1>2, ThenRange
<1>4. 256 * n = KeyMod
  BY DEF n, KeyMod
<1>5. KeyMod \in Nat /\ KeyRange = 256 * KeyMod /\ KeyRange \in Nat
  BY KeyFacts DEF KeyRange
<1> HIDE DEF high
<1>6. key \in Nat /\ key + 1 <= 256 * KeyMod
  BY <1>1, <1>3, <1>4, <1>5, ThenRange
<1>7. RGB565TOCOLORKEY(rgb) = key
  BY DEF RGB565TOCOLORKEY, key, high, r, g, b
<1> HIDE DEF key
<1> QED
  BY <1>5, <1>6, <1>7

\* ... and a different one for each.
LEMMA WidenedOnce ==
  ASSUME NEW k \in 0 .. KeyMod - 1, NEW l \in 0 .. KeyMod - 1,
         RGB565TOCOLORKEY(k) = RGB565TOCOLORKEY(l)
  PROVE  k = l
<1>1. /\ Red(k) \in 0 .. 31 /\ Green(k) \in 0 .. 63 /\ Blue(k) \in 0 .. 31
      /\ Red(l) \in 0 .. 31 /\ Green(l) \in 0 .. 63 /\ Blue(l) \in 0 .. 31
  BY Channels
<1>2. /\ Widened5(Red(k)) = Widened5(Red(l))
      /\ Widened6(Green(k)) = Widened6(Green(l))
      /\ Widened5(Blue(k)) = Widened5(Blue(l))
  <2>1. ASSUME NEW x \in 0 .. KeyMod - 1
        PROVE  /\ Widened5(Red(x)) = (RGB565TOCOLORKEY(x) \div 256) \div 256
               /\ Widened6(Green(x)) = (RGB565TOCOLORKEY(x) \div 256) % 256
               /\ Widened5(Blue(x)) = RGB565TOCOLORKEY(x) % 256
    <3> DEFINE r == Widened5(Red(x))
               g == Widened6(Green(x))
               b == Widened5(Blue(x))
               m == Then(r, g)
    <3>1. r \in Nat /\ g \in 0 .. 255 /\ b \in 0 .. 255
      BY WidenedChannels
    <3>2. RGB565TOCOLORKEY(x) = Then(m, b)
      BY DEF RGB565TOCOLORKEY
    <3> HIDE DEF r, g, b
    <3>3. m \in Nat /\ m % 256 = g /\ m \div 256 = r
      BY <3>1, ThenFacts
    <3> HIDE DEF m
    <3>4. Then(m, b) % 256 = b /\ Then(m, b) \div 256 = m
      BY <3>1, <3>3, ThenFacts
    <3> QED
      BY <3>2, <3>3, <3>4 DEF r, g, b
  <2> QED
    BY <2>1
<1>3. Red(k) = Red(l) /\ Green(k) = Green(l) /\ Blue(k) = Blue(l)
  BY <1>1, <1>2, WidenedApart
<1> QED
  BY <1>3, Channels

\* Both a failure and any buffer are answers of the library.
LEMMA IndexFacts ==
  /\ -1 \in -1 .. Buffers - 1
  /\ 0 \in -1 .. Buffers - 1
  /\ 0 \in 0 .. KeyMod - 1
  /\ 0 \in 0 .. KeyRange - 1
  /\ \A next \in 0 .. Buffers - 1 : next \in -1 .. Buffers - 1
BY KeyAssumption, KeyFacts

LEMMA ImageFacts ==
  /\ NoImage \in FittedImages
  /\ \A i \in Images : Fitted(i) \in FittedImages
  /\ \A i \in FittedImages : Stored(i) \in StoredImages
  /\ NoImage.id \in {i.id : i \in FittedImages}
BY DEF FittedImages, StoredImages

LEMMA StoredFields ==
  ASSUME NEW i
  PROVE  /\ Stored(i).w = i.w
         /\ Stored(i).h = i.h
         /\ Stored(i).pos = i.pos
BY DEF Stored

LEMMA InductiveInit == Init => IInv
<1> SUFFICES ASSUME Init PROVE IInv
  OBVIOUS
<1>1. TypeOK
  BY ImageFacts, IndexFacts DEF Init, TypeOK, Formats, Places
<1> QED
  BY <1>1
  DEF Init, IInv, OneTask, BufferExists, MutexKnown, TaskKnown,
      FieldsDescribe, FieldsFit, KeyKnown

-----------------------------------------------------------------------------
(* The steps of PutImage. *)

LEMMA PutImageKeeps ==
  ASSUME IInv, NEW i \in Images, PutImage(i)
  PROVE  IInv'
<1>1. image' \in FittedImages
  BY ImageFacts DEF PutImage
<1>2. TypeOK'
  BY <1>1 DEF PutImage, IInv, TypeOK, port, library, Places
<1> QED
  BY <1>2
  DEF PutImage, IInv, OneTask, BufferExists, MutexKnown, TaskKnown,
      FieldsDescribe, FieldsFit, KeyKnown, port, library

LEMMA BeginKeeps ==
  ASSUME IInv, Begin
  PROVE  IInv'
<1>1. Stored(image) \in StoredImages
  BY ImageFacts DEF IInv, TypeOK
<1>2. TypeOK'
  BY <1>1 DEF Begin, IInv, TypeOK, library, Places
<1> QED
  BY <1>2
  DEF Begin, IInv, OneTask, BufferExists, MutexKnown, TaskKnown,
      FieldsDescribe, FieldsFit, KeyKnown, library

LEMMA SetupKeeps ==
  ASSUME IInv, Setup \/ TaskFails \/ Relock
  PROVE  IInv'
<1>1. TypeOK'
  BY WidenedRange, ImageFacts
  DEF Setup, TaskFails, Relock, IInv, TypeOK, port, library, Places
<1> QED
  BY <1>1
  DEF Setup, TaskFails, Relock, IInv, OneTask, BufferExists, MutexKnown,
      TaskKnown, FieldsDescribe, FieldsFit, KeyKnown, port, library

\* The task is started for the fields, with the display told the key.
LEMMA TaskStartsKeeps ==
  ASSUME IInv, TaskStarts
  PROVE  IInv'
<1>1. PICK f \in Formats : handle' = [in |-> fields, id |-> image.id, fmt |-> f]
  BY DEF TaskStarts
<1>2. handle'.in = fields'
  BY <1>1 DEF TaskStarts
<1>3. image.id \in {i.id : i \in FittedImages}
  BY DEF IInv, TypeOK
<1>4. TypeOK'
  <2>1. next_update_idx' \in -1 .. Buffers - 1
    BY IndexFacts DEF TaskStarts
  <2>2. tasks' \in Nat
    BY DEF TaskStarts, IInv, TypeOK
  <2>3. isInit' \in BOOLEAN /\ locked' \in BOOLEAN
    BY Zenon DEF TaskStarts
  <2>4. pc' \in Places
    BY DEF TaskStarts, Places
  <2>5. handle' \in [in : StoredImages, id : {i.id : i \in FittedImages},
                     fmt : Formats]
    BY <1>1, <1>3 DEF IInv, TypeOK
  <2>6. UNCHANGED <<fields, colour_key, hwKey, image>>
    BY DEF TaskStarts
  <2> QED
    BY <2>1, <2>2, <2>3, <2>4, <2>5, <2>6 DEF IInv, TypeOK
<1> QED
  BY <1>2, <1>4, KeyAssumption
  DEF TaskStarts, IInv, OneTask, BufferExists, MutexKnown, TaskKnown,
      FieldsDescribe, FieldsFit, KeyKnown

\* A frame is let through only if its target is that of the fields.
LEMMA CheckKeeps ==
  ASSUME IInv, Check
  PROVE  IInv'
<1>1. Stored(image) \in StoredImages
  BY ImageFacts DEF IInv, TypeOK
<1>2. TypeOK'
  BY <1>1 DEF Check, IInv, TypeOK, library, Places
<1>3. FieldsFit'
  BY DEF Check, FieldsFit, SizeChanged, PositionChanged
<1> QED
  BY <1>2, <1>3
  DEF Check, IInv, OneTask, BufferExists, MutexKnown, TaskKnown,
      FieldsDescribe, KeyKnown, library

LEMMA TakeDownKeeps ==
  ASSUME IInv, StopAndRetry \/ StopVideo
  PROVE  IInv'
<1>1. tasks' = 0
  BY DEF StopAndRetry, StopVideo, TakeDown, IInv, OneTask
<1>2. TypeOK'
  BY <1>1 DEF StopAndRetry, StopVideo, TakeDown, IInv, TypeOK, Places
<1> QED
  BY <1>1, <1>2
  DEF StopAndRetry, StopVideo, TakeDown, IInv, OneTask, BufferExists,
      MutexKnown, TaskKnown, FieldsDescribe, FieldsFit, KeyKnown

LEMMA FrameKeeps ==
  ASSUME IInv, FrameQueued \/ FrameRefused
  PROVE  IInv'
<1>1. CASE FrameQueued
  <2>1. TypeOK'
    BY <1>1, IndexFacts, ImageFacts DEF FrameQueued, IInv, TypeOK, library, Places
  <2> QED
    BY <1>1, <2>1
    DEF FrameQueued, IInv, OneTask, BufferExists, MutexKnown, TaskKnown,
        FieldsDescribe, FieldsFit, KeyKnown, library
<1>2. CASE FrameRefused
  <2>1. tasks' = 0
    BY <1>2 DEF FrameRefused, IInv, OneTask
  <2>2. TypeOK'
    <3>1. next_update_idx' \in -1 .. Buffers - 1
      BY <1>2, IndexFacts DEF FrameRefused
    <3>2. tasks' \in Nat
      BY <2>1
    <3>3. isInit' \in BOOLEAN /\ locked' \in BOOLEAN
      BY <1>2, Zenon DEF FrameRefused
    <3>4. pc' \in Places
      BY <1>2 DEF FrameRefused, Places
    <3>5. UNCHANGED <<fields, colour_key, handle, hwKey>>
      BY <1>2 DEF FrameRefused
    <3>6. image' \in FittedImages
      BY <1>2, ImageFacts DEF FrameRefused
    <3> QED
      BY <3>1, <3>2, <3>3, <3>4, <3>5, <3>6 DEF IInv, TypeOK
  <2> QED
    BY <1>2, <2>1, <2>2
    DEF FrameRefused, IInv, OneTask, BufferExists, MutexKnown, TaskKnown,
        FieldsDescribe, FieldsFit, KeyKnown
<1> QED
  BY <1>1, <1>2

\* The colour key attribute.
LEMMA ColourKeyKeeps ==
  ASSUME IInv, (\E v \in Keys : SetColourKey(v)) \/ WriteKey
  PROVE  IInv'
<1>1. ASSUME NEW v \in Keys, SetColourKey(v)
      PROVE  IInv'
  <2>1. colour_key' \in 0 .. KeyMod - 1
    BY <1>1, KeptKeyRange DEF SetColourKey
  <2>2. TypeOK'
    BY <1>1, <2>1 DEF SetColourKey, IInv, TypeOK, library, Places
  <2> QED
    BY <1>1, <2>2
    DEF SetColourKey, IInv, OneTask, BufferExists, MutexKnown, TaskKnown,
        FieldsDescribe, FieldsFit, KeyKnown, library
<1>2. CASE WriteKey
  <2>1. TypeOK'
    BY <1>2, WidenedRange DEF WriteKey, IInv, TypeOK, port, Places
  <2> QED
    BY <1>2, <2>1
    DEF WriteKey, IInv, OneTask, BufferExists, MutexKnown, TaskKnown,
        FieldsDescribe, FieldsFit, KeyKnown, port
<1> QED
  BY <1>1, <1>2

LEMMA InductiveStep == IInv /\ [Next]_vars => IInv'
<1> SUFFICES ASSUME IInv, [Next]_vars PROVE IInv'
  OBVIOUS
<1>1. CASE Step
  BY <1>1, BeginKeeps, SetupKeeps, TaskStartsKeeps, CheckKeeps,
     TakeDownKeeps, FrameKeeps, ColourKeyKeeps
  DEF Step
<1>2. CASE Call
  BY <1>2, PutImageKeeps, TakeDownKeeps, ColourKeyKeeps DEF Call
<1>3. CASE UNCHANGED vars
  BY <1>3
  DEF vars, port, library, IInv, TypeOK, OneTask, BufferExists, MutexKnown,
      TaskKnown, FieldsDescribe, FieldsFit, KeyKnown
<1> QED
  BY <1>1, <1>2, <1>3 DEF Next

-----------------------------------------------------------------------------
\* What a call knows at each of its points holds of all behaviours.
THEOREM InductiveInvariant == Spec => []IInv
BY InductiveInit, InductiveStep, PTL DEF Spec

\* The port's state stays well typed, whatever images and keys come.
THEOREM TypeCorrect == Spec => []TypeOK
<1>1. IInv => TypeOK
  BY DEF IInv
<1> QED
  BY <1>1, InductiveInvariant, PTL

\* No task is lost or taken down twice.
THEOREM NeverTwoTasks == Spec => []OneTask
<1>1. IInv => OneTask
  BY DEF IInv
<1> QED
  BY <1>1, InductiveInvariant, PTL

\* No frame is copied to the buffer of a failed call.
THEOREM NextBufferExists == Spec => []BufferExists
<1>1. IInv => BufferExists
  BY DEF IInv
<1> QED
  BY <1>1, InductiveInvariant, PTL

\* Every frame goes to a task for the target that its own call asked for.
THEOREM FramesShownInPlace == Spec => []ShownInPlace
<1>1. IInv => ShownInPlace
  BY DEF IInv, ShownInPlace, TaskKnown, FieldsDescribe, FieldsFit
<1> QED
  BY <1>1, InductiveInvariant, PTL

\* The display looks for the key painted with a frame and for no other.
THEOREM KeysMatch == Spec => []KeyMatches
<1>1. ASSUME IInv, pc = "draw", isInit
      PROVE  hwKey = RGB565TOCOLORKEY(colour_key)
  BY <1>1 DEF IInv, KeyKnown
<1>2. ASSUME IInv, NEW v \in Keys, hwKey = RGB565TOCOLORKEY(KeptKey(v)),
             hwKey = RGB565TOCOLORKEY(colour_key)
      PROVE  KeptKey(v) = colour_key
  BY <1>2, KeptKeyRange, WidenedOnce DEF IInv, TypeOK
<1>3. IInv => KeyMatches
  BY <1>1, <1>2 DEF KeyMatches
<1> QED
  BY <1>3, InductiveInvariant, PTL

\* Every way out of a call gives the mutex back.
THEOREM MutexAlwaysReturned == Spec => []MutexReturned
<1>1. IInv => MutexReturned
  BY DEF IInv, MutexReturned, MutexKnown
<1> QED
  BY <1>1, InductiveInvariant, PTL

-----------------------------------------------------------------------------
(* Calls come to an end: what safety says of PutImageReturns. *)

\* An image that is stored before a task is set up is the call's own.
ImageStored == pc \in {"setup", "init", "relock"} => fields = Stored(image)

LEMMA ImageStoredHolds == Spec => []ImageStored
<1>1. Init => ImageStored
  BY DEF Init, ImageStored
<1>2. ImageStored /\ [Next]_vars => ImageStored'
  <2> SUFFICES ASSUME ImageStored, [Next]_vars PROVE ImageStored'
    OBVIOUS
  <2>1. CASE Begin
    BY <2>1 DEF Begin, ImageStored
  <2>2. CASE Setup \/ TaskStarts \/ TaskFails \/ Relock
    BY <2>2 DEF Setup, TaskStarts, TaskFails, Relock, ImageStored, port
  <2>3. CASE Check
    BY <2>3 DEF Check, ImageStored
  <2>4. CASE StopAndRetry \/ FrameQueued \/ FrameRefused \/ WriteKey
    BY <2>4 DEF StopAndRetry, FrameQueued, FrameRefused, WriteKey, ImageStored
  <2>5. CASE Call
    BY <2>5 DEF Call, PutImage, StopVideo, SetColourKey, ImageStored
  <2>6. CASE UNCHANGED vars
    BY <2>6 DEF vars, port, ImageStored
  <2> QED
    BY <2>1, <2>2, <2>3, <2>4, <2>5, <2>6 DEF Next, Step
<1> QED
  BY <1>1, <1>2, PTL DEF Spec

\* How many steps a call may still take.  A task that does not fit is worth
\* more than none, so that taking it down and going back makes progress.
StepsLeft ==
  CASE pc = "begin"  -> IF isInit THEN 9 ELSE 6
    [] pc = "check"  -> IF SizeChanged \/ PositionChanged THEN 8 ELSE 2
    [] pc = "stop"   -> 7
    [] pc = "setup"  -> 5
    [] pc = "init"   -> 4
    [] pc = "relock" -> 3
    [] pc = "draw"   -> 1
    [] pc = "key"    -> 1
    [] OTHER         -> 0

\* The call can take its next step: the mutex is as that step needs it.
NothingToWaitFor ==
  /\ pc \in {"begin", "setup", "relock", "stop"} => ~ locked
  /\ pc \in {"init", "check", "draw"} => locked
  /\ pc = "draw" => isInit

(***************************************************************************)
(* No call waits for a mutex that it holds itself, nor gives back one that *)
(* it has not taken, at any point of any call.                             *)
(***************************************************************************)
THEOREM CallsNeverWait == Spec => []NothingToWaitFor
<1>1. IInv => NothingToWaitFor
  BY DEF IInv, MutexKnown, TaskKnown, NothingToWaitFor
<1> QED
  BY <1>1, InductiveInvariant, PTL

(***************************************************************************)
(* Every step of a call brings it nearer to its end, the one back to the   *)
(* beginning after a change included: the check for changes finds none     *)
(* after the set up that follows, so that PutImage goes back once at most, *)
(* and a call has returned after nine steps.                               *)
(***************************************************************************)
THEOREM CallsComeToAnEnd ==
  Spec => /\ [](StepsLeft \in 0 .. 9 /\ (pc # "idle" => StepsLeft > 0))
          /\ [][Step => StepsLeft' < StepsLeft]_vars
<1>1. TypeOK => StepsLeft \in 0 .. 9 /\ (pc # "idle" => StepsLeft > 0)
  BY DEF TypeOK, Places, StepsLeft
<1>2. IInv /\ ImageStored /\ [Next]_vars =>
        [Step => StepsLeft' < StepsLeft]_vars
  <2> SUFFICES ASSUME IInv, ImageStored, Step PROVE StepsLeft' < StepsLeft
    OBVIOUS
  <2>1. CASE Begin
    BY <2>1 DEF Begin, StepsLeft
  <2>2. CASE Setup \/ TaskStarts \/ TaskFails
    BY <2>2 DEF Setup, TaskStarts, TaskFails, StepsLeft
  <2>3. CASE Relock
    <3>1. image \in FittedImages /\ fields = Stored(image)
      BY <2>3 DEF Relock, IInv, TypeOK, ImageStored
    <3>2. ~ SizeChanged' /\ ~ PositionChanged'
      BY <2>3, <3>1 DEF Relock, port, Stored, SizeChanged, PositionChanged
    <3> QED
      BY <2>3, <3>2 DEF Relock, StepsLeft
  <2>4. CASE Check
    <3>1. CASE SizeChanged \/ PositionChanged
      <4>1. StepsLeft = 8
        BY <2>4, <3>1 DEF Check, StepsLeft
      <4>2. StepsLeft' = 7
        BY <2>4, <3>1 DEF Check, StepsLeft
      <4> QED
        BY <4>1, <4>2
    <3>2. CASE ~ (SizeChanged \/ PositionChanged)
      <4>1. StepsLeft = 2
        BY <2>4, <3>2 DEF Check, StepsLeft
      <4>2. StepsLeft' = 1
        BY <2>4, <3>2 DEF Check, StepsLeft
      <4> QED
        BY <4>1, <4>2
    <3> QED
      BY <3>1, <3>2
  <2>5. CASE StopAndRetry
    BY <2>5 DEF StopAndRetry, TakeDown, StepsLeft
  <2>6. CASE FrameQueued \/ FrameRefused \/ WriteKey
    BY <2>6 DEF FrameQueued, FrameRefused, WriteKey, StepsLeft
  <2> QED
    BY <2>1, <2>2, <2>3, <2>4, <2>5, <2>6 DEF Step
<1>3. IInv => TypeOK
  BY DEF IInv
<1> QED
  BY <1>1, <1>2, <1>3, InductiveInvariant, ImageStoredHolds, PTL DEF Spec

-----------------------------------------------------------------------------
(* The adaptor. *)

\* The port's invariant, and so all of the above, holds within the adaptor.
THEOREM AdaptorKeepsPort == AdaptorSpec => []IInv
<1>1. AdaptorInit => Init
  BY DEF AdaptorInit
<1>2. [AdaptorNext]_adaptorVars => [Next]_vars
  BY DEF AdaptorNext, adaptorVars, InitializeAdaptor, Asked, PortStep, Next
<1> QED
  BY <1>1, <1>2, InductiveInit, InductiveStep, PTL DEF AdaptorSpec

LEMMA ProductNat == \A m, n \in Nat : m * n \in Nat
OBVIOUS

LEMMA AlignedFacts ==
  ASSUME NEW x \in Nat, NEW n \in Nat \ {0}
  PROVE  /\ Aligned(x, n) \in Nat
         /\ x <= Aligned(x, n)
         /\ \E q \in Nat : Aligned(x, n) = n * q
<1> DEFINE y == x + n - 1
           q == y \div n
           r == y % n
<1>1. y \in Nat /\ y = x + (n - 1)
  OBVIOUS
<1>2. Aligned(x, n) = y - r
  BY DEF Aligned
<1> HIDE DEF y
<1>3. q \in Nat /\ r \in 0 .. n - 1 /\ y = n * q + r
  BY <1>1, DivMod
<1> HIDE DEF q, r
<1>4. n * q \in Nat
  BY <1>3
<1>5. Aligned(x, n) = n * q
  BY <1>1, <1>2, <1>3, <1>4
<1>6. x <= n * q
  BY <1>1, <1>3, <1>4
<1> QED
  BY <1>3, <1>4, <1>5, <1>6

\* Half of an even number is the half rounded up.
LEMMA HalfFacts ==
  ASSUME NEW x \in Nat, NEW q \in Nat, x = 2 * q
  PROVE  x \div 2 = q /\ (x + 1) \div 2 = q
<1>1. /\ x \div 2 \in Nat /\ x % 2 \in 0 .. 1
      /\ x = 2 * (x \div 2) + (x % 2)
  BY DivMod
<1>2. /\ (x + 1) \div 2 \in Nat /\ (x + 1) % 2 \in 0 .. 1
      /\ x + 1 = 2 * ((x + 1) \div 2) + ((x + 1) % 2)
  BY DivMod
<1> QED
  BY <1>1, <1>2

\* Widths, and heights of planar images, are even.
LEMMA QuerySizes ==
  ASSUME NEW id, NEW w \in Nat, NEW h \in Nat
  PROVE  /\ QueryWidth(w) \in Nat
         /\ QueryWidth(w) >= w \/ QueryWidth(w) = MaxSide
         /\ \E q \in Nat : QueryWidth(w) = 2 * q
         /\ QueryHeight(id, h) \in Nat
         /\ QueryHeight(id, h) >= h \/ QueryHeight(id, h) = MaxSide
         /\ id \in PlanarImages => \E q \in Nat : QueryHeight(id, h) = 2 * q
<1>1. MaxSide = 2 * 512
  BY DEF MaxSide
<1>2. /\ Aligned(w, 2) \in Nat /\ w <= Aligned(w, 2)
      /\ \E q \in Nat : Aligned(w, 2) = 2 * q
  BY AlignedFacts
<1>3. /\ Aligned(h, 2) \in Nat /\ h <= Aligned(h, 2)
      /\ \E q \in Nat : Aligned(h, 2) = 2 * q
  BY AlignedFacts
<1>4. /\ Aligned(MaxSide, 2) = MaxSide
  BY DEF Aligned, MaxSide
<1>5. MaxSide \in Nat /\ \E q \in Nat : MaxSide = 2 * q
  BY <1>1
<1> HIDE DEF MaxSide
<1> QED
  BY <1>2, <1>3, <1>4, <1>5 DEF QueryWidth, QueryHeight

LEMMA ThreeItems ==
  ASSUME NEW s, NEW a, NEW b, NEW c, s = <<a, b, c>>
  PROVE  Len(s) = 3 /\ s[1] = a /\ s[2] = b /\ s[3] = c
OBVIOUS

LEMMA PlanarHolds ==
  ASSUME NEW id \in PlanarImages, NEW width \in Nat, NEW height \in Nat,
         \E p \in Nat : width = 2 * p, \E q \in Nat : height = 2 * q,
         NEW told, told = PlanarLayout(width, height)
  PROVE  /\ told.width = width /\ told.height = height
         /\ Len(told.pitches) = 3 /\ Len(told.offsets) = 3
         /\ \A k \in 1 .. 3 : HoldsPlane(id, told, k)
<1> PICK p \in Nat : width = 2 * p
  OBVIOUS
<1> PICK q \in Nat : height = 2 * q
  OBVIOUS
<1> DEFINE luma   == Aligned(width, 4)
           chroma == Aligned(p, 4)
           first  == luma * height
           half   == chroma * q
<1>1. /\ width \div 2 = p /\ (width + 1) \div 2 = p
      /\ height \div 2 = q /\ (height + 1) \div 2 = q
  BY HalfFacts
<1>2. luma \in Nat /\ width <= luma /\ chroma \in Nat /\ p <= chroma
  BY AlignedFacts
<1>3. first \in Nat /\ half \in Nat
  BY <1>2, ProductNat
<1>4. /\ told.width = width /\ told.height = height
      /\ told.pitches = <<luma, chroma, chroma>>
      /\ told.offsets = <<0, first, first + half>>
      /\ told.size = first + half + half
  BY <1>1 DEF PlanarLayout, Layout
<1>5. /\ RowBits(id, 1, width) = width * 8 /\ Rows(id, 1, height) = height
      /\ \A k \in {2, 3} : RowBits(id, k, width) = p * 8 /\ Rows(id, k, height) = q
  BY <1>1 DEF RowBits, Rows
<1> HIDE DEF first, half
<1>6. /\ EndOf(told, 1) = first
      /\ EndOf(told, 2) = first + half
      /\ EndOf(told, 3) = first + half + half
  <2>1. told.offsets = <<0, first, first + half>>
    BY <1>4
  <2>2. /\ Len(told.offsets) = 3
        /\ told.offsets[2] = first /\ told.offsets[3] = first + half
    BY <2>1, ThreeItems
  <2>3. told.size = first + half + half
    BY <1>4
  <2>4. EndOf(told, 1) = told.offsets[2]
    BY <2>2 DEF EndOf
  <2>5. EndOf(told, 2) = told.offsets[3]
    BY <2>2 DEF EndOf
  <2>6. EndOf(told, 3) = told.size
    BY <2>2 DEF EndOf
  <2> QED
    BY <2>2, <2>4, <2>5, <2>6, <2>3
<1>7. luma * 8 >= width * 8 /\ chroma * 8 >= p * 8
  BY <1>2
<1>8. HoldsPlane(id, told, 1)
  <2>1. 0 + first <= first
    BY <1>3
  <2> QED
    BY <2>1, <1>4, <1>5, <1>6, <1>7 DEF HoldsPlane, first
<1>9. HoldsPlane(id, told, 2)
  <2>1. first + half <= first + half
    BY <1>3
  <2> QED
    BY <2>1, <1>4, <1>5, <1>6, <1>7 DEF HoldsPlane, half
<1>10. HoldsPlane(id, told, 3)
  <2>1. (first + half) + half <= first + half + half
    BY <1>3
  <2> QED
    BY <2>1, <1>4, <1>5, <1>6, <1>7 DEF HoldsPlane, half
<1> QED
  BY <1>4, <1>8, <1>9, <1>10

\* The two tables agree: what is announced in bits is answered in bytes.
LEMMA PackedAgree ==
  \A id \in DOMAIN PackedBits :
    /\ id \notin PlanarImages
    /\ BytesPerPixel(id) \in {1, 2, 4}
    /\ PackedBits[id] = BytesPerPixel(id) * 8
BY DEF PackedBits, BytesPerPixel, PlanarImages

LEMMA PackedHolds ==
  ASSUME NEW id \in DOMAIN PackedBits, NEW width \in Nat, NEW height \in Nat,
         NEW told, told = PackedLayout(id, width, height)
  PROVE  /\ told.width = width /\ told.height = height
         /\ Len(told.pitches) = 1 /\ Len(told.offsets) = 1
         /\ HoldsPlane(id, told, 1)
<1> DEFINE n     == BytesPerPixel(id)
           pitch == width * n
           size  == pitch * height
<1>1. n \in {1, 2, 4} /\ PackedBits[id] = n * 8 /\ id \notin PlanarImages
  BY PackedAgree
<1> HIDE DEF n
<1>2. pitch \in Nat /\ pitch * 8 = width * (n * 8)
  BY <1>1
<1> HIDE DEF pitch
<1>3. size \in Nat
  BY <1>2, ProductNat
<1> HIDE DEF size
<1>4. /\ told.width = width /\ told.height = height
      /\ told.pitches = <<pitch>> /\ told.offsets = <<0>> /\ told.size = size
  BY DEF PackedLayout, Layout, n, pitch, size
<1>5. RowBits(id, 1, width) = pitch * 8 /\ Rows(id, 1, height) = height
  BY <1>1, <1>2 DEF RowBits, Rows
<1>6. EndOf(told, 1) = size
  BY <1>4 DEF EndOf
<1>7. pitch * 8 >= pitch * 8 /\ 0 + size <= size
  BY <1>2, <1>3
<1> QED
  BY <1>4, <1>5, <1>6, <1>7 DEF HoldsPlane, size

(***************************************************************************)
(* PlanesHold: whatever image and size a client asks about, one laid out   *)
(* as answered loses no row and no sample.                                 *)
(***************************************************************************)
THEOREM PlanesAlwaysHold == AdaptorSpec => []PlanesHold
<1>1. AdaptorInit => PlanesHold
  BY DEF AdaptorInit, PlanesHold
<1>2. ASSUME NEW id \in MXImage, NEW w \in Nat, NEW h \in Nat,
             NEW told, told = LayoutOf(id, w, h)
      PROVE  /\ Covers(told, w, h)
             /\ Len(told.pitches) = Planes(id) /\ Len(told.offsets) = Planes(id)
             /\ \A k \in 1 .. Planes(id) : HoldsPlane(id, told, k)
  <2> DEFINE width  == QueryWidth(w)
             height == QueryHeight(id, h)
  <2>1. /\ width \in Nat /\ (width >= w \/ width = MaxSide)
        /\ height \in Nat /\ (height >= h \/ height = MaxSide)
        /\ \E p \in Nat : width = 2 * p
        /\ id \in PlanarImages => \E q \in Nat : height = 2 * q
    BY QuerySizes
  <2>2. told = IF id \in PlanarImages THEN PlanarLayout(width, height)
                                     ELSE PackedLayout(id, width, height)
    BY <1>2 DEF LayoutOf
  <2> HIDE DEF width, height
  <2>3. CASE id \in PlanarImages
    <3>1. (\E p \in Nat : width = 2 * p) /\ (\E q \in Nat : height = 2 * q)
      BY <2>3, <2>1
    <3>2. width \in Nat /\ height \in Nat
      BY <2>1
    <3>3. told = PlanarLayout(width, height)
      BY <2>3, <2>2
    <3>4. /\ told.width = width /\ told.height = height
          /\ Len(told.pitches) = 3 /\ Len(told.offsets) = 3
          /\ \A k \in 1 .. 3 : HoldsPlane(id, told, k)
      BY <2>3, <3>1, <3>2, <3>3, PlanarHolds
    <3>5. Planes(id) = 3
      BY <2>3 DEF Planes
    <3>6. Covers(told, w, h)
      BY <2>1, <3>4 DEF Covers
    <3> QED
      BY <3>4, <3>5, <3>6
  <2>4. CASE id \notin PlanarImages
    <3>1. id \in DOMAIN PackedBits
      BY <2>4 DEF MXImage
    <3>2. told = PackedLayout(id, width, height)
      BY <2>4, <2>2
    <3>3. /\ told.width = width /\ told.height = height
          /\ Len(told.pitches) = 1 /\ Len(told.offsets) = 1
          /\ HoldsPlane(id, told, 1)
      BY <2>1, <3>1, <3>2, PackedHolds
    <3>4. Planes(id) = 1
      BY <2>4 DEF Planes
    <3>5. Covers(told, w, h)
      BY <2>1, <3>3 DEF Covers
    <3> QED
      BY <3>3, <3>4, <3>5
  <2> QED
    BY <2>3, <2>4
<1>3. PlanesHold /\ [AdaptorNext]_adaptorVars => PlanesHold'
  <2> SUFFICES ASSUME PlanesHold, [AdaptorNext]_adaptorVars PROVE PlanesHold'
    OBVIOUS
  <2>1. CASE Asked
    <3>1. PICK id \in MXImage, w \in Sides, h \in Sides :
            QueryImageAttributes(id, w, h)
      BY <2>1 DEF Asked
    <3>2. w \in Nat /\ h \in Nat
      BY SidesAssumption
    <3> QED
      BY <3>1, <3>2, <1>2 DEF QueryImageAttributes, PlanesHold
  <2>2. CASE reply' = {}
    BY <2>2 DEF PlanesHold
  <2>3. CASE UNCHANGED reply
    BY <2>3 DEF PlanesHold
  <2> QED
    BY <2>1, <2>2, <2>3
    DEF AdaptorNext, adaptorVars, InitializeAdaptor, PortStep
<1> QED
  BY <1>1, <1>3, PTL DEF AdaptorSpec
=============================================================================
