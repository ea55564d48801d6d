------------------------------ MODULE MC_MythTV ------------------------------
(* The four threads of the MythTV client.                                  *)
EXTENDS MythTV

Scene(o, e, f) == [ops |-> o, events |-> e, faults |-> f, chain |-> FALSE]
Chain(o, e, f) == [Scene(o, e, f) EXCEPT !.chain = TRUE]

\* Recordings, with a backend that fails and one that closes the connection,
\* and live TV, with a backend that wants the tuner back, and one with a chain of
\* files.
AllScenes ==
  {Scene({"select", "stop", "jump"}, {}, {"range"}),
   Scene({"select", "size"}, {}, {"connect"}),
   Scene({"select", "exit"}, {}, {}),
   Scene({"thumbnail"}, {"close"}, {}),
   Scene({"thumbnail", "delete"}, {}, {}),
   Scene({"livetv", "stop", "channel"}, {"chain"}, {}),
   Scene({"livetv", "stop", "channel"}, {}, {"rpc"}),
   Scene({"tuner"}, {"quit"}, {}),
   Scene({"tuner", "exit"}, {}, {}),
   Scene({"new_livetv", "stop"}, {}, {"tuner"}),
   Scene({"new_livetv", "jump"}, {}, {"answer"}),
   Chain({"livetv", "update", "jump"}, {}, {"tuner"}),
   Chain({"livetv", "jump"}, {"chain"}, {})}
=============================================================================
