CONSTANTS
  NumWheels = 2
  Orientations = {ahead, side}
  Ahead = ahead
  STOP = stop
  Turns = 3
  MaxLoss = 2
  MaxInput = 3
  Events = {"ctrl_c", "help_alias", "panic"}
SPECIFICATION FairSpec
INVARIANTS TypeOK DriveAligned NotifyDiscipline BelievedStopped QuitStops
PROPERTIES MotionSpec MoveReturns StopWorks
