------------------------------ MODULE XvAdaptor ------------------------------
(***************************************************************************)
(* The Xv adaptor of src/src/imx_xv_ipu.c: the port of XvPort, offered     *)
(* when the screen has a background device, with the images it announces   *)
(* and the answers it gives between the calls that XvPort describes.       *)
(***************************************************************************)
EXTENDS XvPort, Sequences

CONSTANT Sides  \* widths and heights that clients ask about

ASSUME SidesAssumption == Sides \subseteq Nat

VARIABLES
  offered,  \* the adaptor was set up and given to the server
  reply     \* the last answer, until the next call

adaptorVars == <<vars, offered, reply>>

\* The images announced: bits per pixel of the packed ones; the planar ones
\* have a plane of full size and two of half its width and height.
PackedBits ==
  [YUY2 |-> 16, UYVY |-> 16, RGB565 |-> 16, RGB555 |-> 16, RGB332 |-> 8,
   RGBA32 |-> 32, RGB32 |-> 32, BGRA32 |-> 32]

PlanarImages == {"YV12", "I420", "NV12"}

MXImage == DOMAIN PackedBits \cup PlanarImages

-----------------------------------------------------------------------------
(* MXQueryImageAttributes. *)

MaxSide == 1024

Aligned(x, n) == (x + n - 1) - ((x + n - 1) % n)

QueryWidth(w) == IF w > MaxSide THEN MaxSide ELSE Aligned(w, 2)

\* Mutation: an odd height is kept.
QueryHeightOdd(id, h) == IF h > MaxSide THEN MaxSide ELSE h

QueryHeight(id, h) ==
  LET height == IF h > MaxSide THEN MaxSide ELSE h
  IN  IF id \in PlanarImages THEN Aligned(height, 2) ELSE height

Layout(width, height, pitches, offsets, size) ==
  [width |-> width, height |-> height, pitches |-> pitches,
   offsets |-> offsets, size |-> size]

PlanarLayout(width, height) ==
  LET luma   == Aligned(width, 4)
      chroma == Aligned(width \div 2, 4)
      second == luma * height
      third  == second + chroma * (height \div 2)
  IN  Layout(width, height, <<luma, chroma, chroma>>, <<0, second, third>>,
             third + chroma * (height \div 2))

BytesPerPixel(id) ==
  CASE id \in {"UYVY", "YUY2", "RGB565", "RGB555"} -> 2
    [] id \in {"RGBA32", "RGB32", "BGRA32"}        -> 4
    [] id = "RGB332"                               -> 1

PackedLayout(id, width, height) ==
  LET pitch == width * BytesPerPixel(id)
  IN  Layout(width, height, <<pitch>>, <<0>>, pitch * height)

LayoutOf(id, w, h) ==
  IF id \in PlanarImages
  THEN PlanarLayout(QueryWidth(w), QueryHeight(id, h))
  ELSE PackedLayout(id, QueryWidth(w), QueryHeight(id, h))

QueryImageAttributes(id, w, h) ==
  reply' = {[id |-> id, w |-> w, h |-> h, told |-> LayoutOf(id, w, h)]}

-----------------------------------------------------------------------------
\* MXXVInitializeAdaptor; without a background device there is no adaptor.
InitializeAdaptor ==
  /\ ~ offered
  /\ offered' = TRUE
  /\ UNCHANGED <<vars, reply>>

\* What is answered does not depend on earlier answers.
Asked ==
  /\ offered /\ pc = "idle" /\ reply = {}
  /\ \E id \in MXImage, w, h \in Sides : QueryImageAttributes(id, w, h)
  /\ UNCHANGED <<vars, offered>>

PortStep(A) == offered /\ A /\ reply' = {} /\ UNCHANGED offered

AdaptorInit == Init /\ offered = FALSE /\ reply = {}

AdaptorNext ==
  \/ InitializeAdaptor
  \/ Asked
  \/ PortStep(Step)
  \/ PortStep(Call)

\* The thread inside the driver keeps running, as in XvPort.
AdaptorSpec ==
  AdaptorInit /\ [][AdaptorNext]_adaptorVars /\ WF_adaptorVars(PortStep(Step))

-----------------------------------------------------------------------------
\* The samples of a row and the rows, by plane; half sizes are rounded up.
RowBits(id, k, width) ==
  IF id \notin PlanarImages THEN width * PackedBits[id]
  ELSE IF k = 1 THEN width * 8
  ELSE ((width + 1) \div 2) * 8

Rows(id, k, height) ==
  IF id \in PlanarImages /\ k > 1 THEN (height + 1) \div 2 ELSE height

Planes(id) == IF id \in PlanarImages THEN 3 ELSE 1

EndOf(told, k) == IF k < Len(told.offsets) THEN told.offsets[k + 1] ELSE told.size

(***************************************************************************)
(* A client that lays out an image as it is told loses no sample of it:    *)
(* the size told covers the size asked for, up to the limit; each of the   *)
(* planes that the table of images announces has room for its rows, odd    *)
(* sizes included; and each ends where the next one begins or before, the  *)
(* last within the size that the server takes from the client.             *)
(***************************************************************************)
Covers(told, w, h) ==
  /\ told.width >= w \/ told.width = MaxSide
  /\ told.height >= h \/ told.height = MaxSide

HoldsPlane(id, told, k) ==
  /\ told.pitches[k] * 8 >= RowBits(id, k, told.width)
  /\ told.offsets[k] + told.pitches[k] * Rows(id, k, told.height)
       <= EndOf(told, k)

PlanesHold ==
  \A r \in reply :
    /\ Covers(r.told, r.w, r.h)
    /\ Len(r.told.pitches) = Planes(r.id) /\ Len(r.told.offsets) = Planes(r.id)
    /\ \A k \in 1 .. Planes(r.id) : HoldsPlane(r.id, r.told, k)
=============================================================================
