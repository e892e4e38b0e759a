----------------------- MODULE MCBoundedBlockingQueue -----------------------
(***************************************************************************)
(* Two producers, two consumers and two closers on a queue of two values.   *)
(* Behaviours are endless but their states finite, so the number of calls   *)
(* needs no bound.                                                          *)
(***************************************************************************)
EXTENDS BoundedBlockingQueue
=============================================================================
