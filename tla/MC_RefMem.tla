------------------------------ MODULE MC_RefMem ------------------------------
(* Two threads with two variables each, and two blocks, one of which may    *)
(* hold a reference to the other.                                           *)
EXTENDS RefMem
=============================================================================
