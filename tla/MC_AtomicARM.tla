---------------------------- MODULE MC_AtomicARM ----------------------------
(* Two threads; the counter is wide enough not to wrap around.             *)
EXTENDS AtomicARM
=============================================================================
