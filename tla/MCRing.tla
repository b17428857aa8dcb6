------------------------------- MODULE MCRing -------------------------------
(* Model-checking instance of LockFreeRingBuffer. *)
EXTENDS LockFreeRingBuffer
=============================================================================
