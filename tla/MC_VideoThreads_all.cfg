\* Every key and every failure.
SPECIFICATION FairSpec
CONSTANTS
  Keys = {"jump", "back", "seek_to", "seek_by"}
  OpenFails = TRUE
INVARIANTS TypeOK VideoQuiet
PROPERTIES AudioFallsSilent ClearReturnsUnlessSeeking SeekSettles JumpSettles PlayOpens
