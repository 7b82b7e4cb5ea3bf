------------------------------ MODULE MCXvPort ------------------------------
(***************************************************************************)
(* Values for TLC.  Each image differs from the first in one respect; two  *)
(* more have a width that is rounded, to that of another and to nothing.   *)
(***************************************************************************)
EXTENDS XvAdaptor

First == [id |-> "YUY2", src |-> "qvga", w |-> 8, h |-> 1, pos |-> 1]

SomeImages ==
  {First, [First EXCEPT !.id = "RGB4"], [First EXCEPT !.src = "vga"],
   [First EXCEPT !.w = 12], [First EXCEPT !.w = 16], [First EXCEPT !.w = 4],
   [First EXCEPT !.h = 2], [First EXCEPT !.pos = 2]}

\* Below and above the range, two in it that differ in the lowest bit of
\* green, and one that has this bit and one that is not kept.
SomeKeys == {-1, 32, 64, 65568, 16777216}

\* An odd side and one above the limit.
SomeSides == {5, 1025}
=============================================================================
