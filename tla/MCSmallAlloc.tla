---------------------------- MODULE MCSmallAlloc ----------------------------
(* SmallAlloc with two pools whose objects do not divide the block.         *)
EXTENDS SmallAlloc, TLC
CONSTANTS space, tcb
MCObjSize == (space :> 3) @@ (tcb :> 6)
=============================================================================
