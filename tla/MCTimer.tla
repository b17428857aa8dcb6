------------------------------ MODULE MCTimer ------------------------------
(* Model-checking instance of TimerHeap. *)
EXTENDS TimerHeap

CONSTANTS a, b, c    \* chains
=============================================================================
