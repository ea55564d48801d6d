\* demux_flush in the middle of a seek.
SPECIFICATION Spec
CONSTANTS
  Size = 8
  MaxAdd = 3
  Margin = 2
  Lookback = 2
  Low = 3
  HasParser = TRUE
  ParserStalls = FALSE
  Resets = {"flush"}
  ResetAnytime = FALSE
INVARIANT FlushDiscards
