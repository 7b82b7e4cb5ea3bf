---------------------------- MODULE MCExaPixmaps ----------------------------
(***************************************************************************)
(* Values for TLC: tiles of 2 by 2 pixels instead of 32 by 32, and a pool  *)
(* that a few pixmaps fill.                                                *)
(***************************************************************************)
EXTENDS ExaPixmaps, TLC

CONSTANTS p1, p2, p3

Names    == {p1, p2, p3}
Symmetry == Permutations(Names)

Shape(w, h, bpp) == [width |-> w, height |-> h, bitsPerPixel |-> bpp]

\* A header, pixmaps for system memory, for video memory, one with a pitch
\* the GPU cannot take, and one whose size is too large by one for an int.
CreateShapes ==
  {Shape(0, 0, 8), Shape(3, 1, 1), Shape(1, 2, 16), Shape(3, 3, 8),
   Shape(3, 1, 16), Shape(3, 4, 16)}

ModifyShapes == {Shape(0, 0, 0), Shape(3, 2, 16)}

\* The start of the screen, a byte of the pool, and shared memory that starts
\* where video memory ends.
Data == {MemoryBase, MemoryBase + OffScreenBase + 3, MemoryBase + MemorySize}

HeapAddresses == {1, 2}
=============================================================================
