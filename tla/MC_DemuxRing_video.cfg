\* The video stream: the margins scaled down with the ring.
SPECIFICATION Spec
CONSTANTS
  Size = 8
  MaxAdd = 3
  Margin = 2
  Lookback = 2
  Low = 3
  HasParser = TRUE
  ParserStalls = FALSE
  Resets = {"reset", "seek"}
  ResetAnytime = FALSE
INVARIANTS TypeOK WaitingIntact InOrder MarginKept SeekHidesData
