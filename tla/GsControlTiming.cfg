CONSTANTS
  NumChannels = 2
  Termination = TRUE
  Timings <- MCTimings
  DataTimings <- MCDataTimings
  Modes <- MCModes
  UINT8 = 256
  UINT32 = 1024
  MaxSetups = 4
SPECIFICATION Spec
INVARIANT AdvertisedTiming
