---------------------------- MODULE MC_AtomicPPC ----------------------------
(* Three threads on a counter of three values: the counter wraps around.    *)
EXTENDS AtomicPPC
=============================================================================
