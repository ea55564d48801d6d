--------------------------- MODULE MC_VideoThreads ---------------------------
(* The four threads of the player, with different keys and faults of the   *)
(* environment.                                                            *)
EXTENDS VideoThreads
=============================================================================
