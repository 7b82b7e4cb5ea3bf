----------------------------- MODULE MCExaScreen -----------------------------
(***************************************************************************)
(* Values for TLC: a screen of four bytes and a pool of one pixmap of as   *)
(* many, tiles of 2 by 2 pixels of one byte.  A header can be the screen's *)
(* pixmap or one in shared memory.                                         *)
(***************************************************************************)
EXTENDS ExaScreen, TLC

CONSTANTS p1, p2

Names    == {p1, p2}
Symmetry == Permutations(Names)

Pixels(w, h) == [width |-> w, height |-> h, bitsPerPixel |-> 8]

CreateShapes == {Pixels(0, 0), Pixels(2, 2)}
ModifyShapes == {Pixels(2, 2)}

Data == {MemoryBase, MemoryBase + MemorySize}

HeapAddresses == {1}

Buffers ==
  [base : MemPhysBase .. MemPhysBase + MemorySize - 1, size : 0 .. MemorySize]
=============================================================================
