-------------------------- MODULE MCOffscreenAreas --------------------------
(***************************************************************************)
(* Values for TLC: a pool whose base is not a multiple of the alignments,  *)
(* so that the loss to alignment differs between the two ends of an area.  *)
(***************************************************************************)
EXTENDS OffscreenRefinement

Req(sizes, aligns, locked) == [size : sizes, align : aligns, locked : locked]

\* What the driver asks for: every pixmap is locked.
DriverRequests == Req({3, 4, 6}, {4}, {TRUE})

\* Evictable requests, one of them smaller than its alignment.
RaggedRequests == Req({1, 4}, {4}, {FALSE})
=============================================================================
