CONSTANTS
  fr = fr
  Modules = {fr}
  Invert = {fr}
  Translation <- MCTranslation
  Twists <- MCTwists
  STOP <- MCSTOP
  Limit = 4
  Deadband = 2
  FifoDepth = 2
  MaxTwists = 2
  MaxTransitions = 5
  MaxResets = 1
  NaN = NaN
  DISABLED = DISABLED
SPECIFICATION FairSpec
CHECK_DEADLOCK FALSE
INVARIANTS TypeOK NoPhantomDrive ReportedIsSent
PROPERTIES WheelSpec CommandReaches
