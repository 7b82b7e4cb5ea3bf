------------------------- MODULE OffscreenRefinement -------------------------
(***************************************************************************)
(* The areas of OffscreenAreas seen as the blocks of OffscreenPool: what   *)
(* is in use, from the aligned offset on, for the size asked for.          *)
(***************************************************************************)
EXTENDS OffscreenAreas

BlockOf(b) == [lo |-> areas[b].offset, size |-> areas[b].want]

Pool == INSTANCE OffscreenPool
  WITH PoolBase <- OffScreenBase,
       PoolEnd  <- MemorySize,
       held     <- {BlockOf(b) : b \in Used},
       ready    <- areas # NoAreas

(***************************************************************************)
(* The manager implements the promise, as long as its callers pin what     *)
(* they allocate (every call of OffscreenAlloc in the driver does).        *)
(***************************************************************************)
ImplementsPool == Pool!PoolSpec
=============================================================================
