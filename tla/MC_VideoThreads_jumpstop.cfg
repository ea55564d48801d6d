\* A jump followed by a stop.
SPECIFICATION FairSpec
CONSTANTS
  Keys = {"seek_to"}
  OpenFails = FALSE
PROPERTY ClearReturns
