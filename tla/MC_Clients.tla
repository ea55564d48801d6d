----------------------------- MODULE MC_Clients -----------------------------
(* Clients with small rings, queues, files and lists.                      *)
EXTENDS Clients

\* Every kind of packet, long, short and empty.
Packet(t, k) == [type |-> t, n |-> k]
AllInputs ==
  {<<Packet("pack", 2), Packet("video", 2), Packet("audio", 2), Packet("video", 1)>>,
   <<Packet("audio", 1), Packet("private", 2), Packet("pack1", 0), Packet("audio", 2)>>,
   <<Packet("pad", 2), Packet("video", 0), Packet("audio", 0), Packet("end", 0),
     Packet("video", 1)>>,
   <<Packet("other", 2), Packet("pack", 0), Packet("private", 0), Packet("other", 0)>>}
=============================================================================
