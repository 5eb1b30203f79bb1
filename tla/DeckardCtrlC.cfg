CONSTANTS
  NumWheels = 2
  Orientations = {ahead, side}
  Ahead = ahead
  STOP = stop
  Turns = 6
  MaxLoss = 0
  MaxInput = 1
  Events = {"ctrl_c"}
SPECIFICATION Spec
INVARIANT CtrlCStops
