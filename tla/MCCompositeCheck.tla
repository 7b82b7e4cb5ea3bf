-------------------------- MODULE MCCompositeCheck --------------------------
(***************************************************************************)
(* Pictures for TLC: every format as source and as target, and sizes below *)
(* MinArea, of one pixel, odd, even and beyond MaxSide with every way of   *)
(* repeating, transformed or not; and windows within and partly outside    *)
(* the pixmap behind them.                                                 *)
(***************************************************************************)
EXTENDS CompositeCheck

\* Below the table, in it and supported, in it and not, above it.
SomeOps == {-1, 1, 3, 7, 14}

Plain ==
  [format |-> "a8r8g8b8", x |-> 0, y |-> 0, w |-> 3, h |-> 2,
   repeat |-> "none", transform |-> FALSE, componentAlpha |-> FALSE,
   pixmap |-> [w |-> 3, h |-> 2, usable |-> TRUE]]

InFormat(f) == [Plain EXCEPT !.format = f]

OfSize(w, h) ==
  [Plain EXCEPT !.w = w, !.h = h, !.pixmap.w = w, !.pixmap.h = h]

\* Part of the pixmap of Plain, or beyond its edges.
Window(x, y, w, h) == [Plain EXCEPT !.x = x, !.y = y, !.w = w, !.h = h]

EveryFormat == {InFormat(f) : f \in DOMAIN PictFormats}

Unfit == {[Plain EXCEPT !.pixmap.usable = FALSE], OfSize(5, 1), OfSize(1, 5), OfSize(1, 1)}

Layouts ==
  {[OfSize(w, h) EXCEPT !.repeat = r, !.transform = t] :
     w \in {1, 3}, h \in {1, 2, 3},
     r \in {"none", "normal", "pad", "reflect"}, t \in BOOLEAN}

Windows ==
  {[Window(x, y, w, h) EXCEPT !.repeat = r] :
     x \in {-1, 0, 1}, y \in {0, 1}, w \in {1, 2, 5}, h \in {1, 2},
     r \in {"none", "normal"}}

SomeSources == EveryFormat \cup Unfit \cup Layouts \cup Windows

SomeMasks ==
  Unfit \cup {InFormat(f) : f \in {"a8", "a1", "x8r8g8b8", "r8g8b8"}}
    \cup {NoPicture, Plain, [Plain EXCEPT !.componentAlpha = TRUE],
          [Plain EXCEPT !.transform = TRUE], [Plain EXCEPT !.repeat = "normal"],
          Window(1, 0, 2, 5)}

SomeTargets == EveryFormat \cup Unfit \cup {Window(-1, 1, 3, 2)}
=============================================================================
