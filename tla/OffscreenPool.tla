---------------------------- MODULE OffscreenPool ----------------------------
(***************************************************************************)
(* What the offscreen memory manager promises the driver, which only asks  *)
(* for pinned memory: blocks of the size and alignment asked for, inside   *)
(* the pool, that never overlap and stay where they are until they are     *)
(* released or the manager is taken down.  Which block is granted, and     *)
(* whether any is, is the manager's choice.                                *)
(***************************************************************************)
EXTENDS Integers

CONSTANTS PoolBase, PoolEnd, Requests

VARIABLES
  held,   \* the blocks [lo, size] granted and not released
  ready   \* the manager is set up

poolVars == <<held, ready>>

Alignment(r) == IF r.align = 0 THEN 1 ELSE r.align

Apart(a, b) == a.lo + a.size <= b.lo \/ b.lo + b.size <= a.lo

Grantable(r) ==
  {a \in [lo : PoolBase .. PoolEnd, size : {r.size}] :
     /\ a.lo % Alignment(r) = 0
     /\ a.lo + a.size <= PoolEnd
     /\ \A b \in held : Apart(a, b)}

Grant(r, a) ==
  /\ ready
  /\ r.size # 0
  /\ a \in Grantable(r)
  /\ held' = held \cup {a}
  /\ UNCHANGED ready

Release(a) ==
  /\ a \in held
  /\ held' = held \ {a}
  /\ UNCHANGED ready

Open ==
  /\ ~ready
  /\ ready' = TRUE
  /\ UNCHANGED held

Close ==
  /\ ready
  /\ ready' = FALSE
  /\ held' = {}

PoolInit == held = {} /\ ready = FALSE

PoolNext ==
  \/ \E r \in Requests : \E a \in Grantable(r) : Grant(r, a)
  \/ \E a \in held : Release(a)
  \/ Open
  \/ Close

PoolSpec == PoolInit /\ [][PoolNext]_poolVars
=============================================================================
