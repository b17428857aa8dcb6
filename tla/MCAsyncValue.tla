---------------------------- MODULE MCAsyncValue ----------------------------
(* Model-checking instance of AsyncValue. *)
EXTENDS AsyncValue

CONSTANTS w1, w2, w3, w4    \* waiters
=============================================================================
