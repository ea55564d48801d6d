SPECIFICATION Spec
CONSTANTS
  Parts = {"replaytv", "parser", "file", "list", "events", "music", "art", "emulation"}
  QSize = 2
  Chunks = 4
  Streams = 3
  Inputs <- AllInputs
  Pack = 3
  MaxChunk = 9
  FileSize = 5
  Block = 3
  Window = 2
  Width = 16
  Hangups = TRUE
  Songs = 2
  Lists = 2
  Keys = {"skip", "replay", "file", "select", "create", "exit", "stop", "randomize", "repeat"}
  Wrap = 12
  Behind = 3
  Ahead = 4
  Soon = 1
  MaxEvents = 3
  Size = 3
  Chunk = 2
  Seqs = 5
  Bytes = 4
  InFlight = 2
  Troubles = 1
  Covers = 2
  Albums = 3
  AlbumWidth = 16
  Presses = 1
  Updates = 1
  EmuPresses = 3
  MaxRdc = 2
INVARIANTS TypeOK QueueAccounted PacketsWhole BytesInPlace ItemsLive FindsFirst InOrder CoversInPlace StopUnderWay
PROPERTY ChunksInOrder
\* The behaviours of the parser and of a show that is not repeated end.
CHECK_DEADLOCK FALSE
