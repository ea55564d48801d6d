---------------------------- MODULE MC_DemuxRing ----------------------------
(* Small rings.                                                            *)
EXTENDS DemuxRing
=============================================================================
