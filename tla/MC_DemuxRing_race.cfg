\* demux_reset while a write thread is draining.
SPECIFICATION Spec
CONSTANTS
  Size = 8
  MaxAdd = 3
  Margin = 2
  Lookback = 2
  Low = 3
  HasParser = TRUE
  ParserStalls = FALSE
  Resets = {"reset"}
  ResetAnytime = TRUE
INVARIANT WaitingIntact
