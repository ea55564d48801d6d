\* The audio stream, with the margin of the code.
SPECIFICATION FairSpec
CONSTANTS
  Size = 17
  MaxAdd = 4
  Margin = 6
  Lookback = 5
  Low = 10
  HasParser = FALSE
  ParserStalls = FALSE
  Resets = {"reset", "flush"}
  ResetAnytime = FALSE
INVARIANTS WaitingIntact InOrder
PROPERTY AddProgress
