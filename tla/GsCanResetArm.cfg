CONSTANTS
  CAN_QUEUE_SIZE = 2
  NumChannels = 1
  FifoDepth = 1
  MaxSubmit = 2
  MaxArrive = 0
  Events = {"reset"}
SPECIFICATION Spec
INVARIANT ArmedWithFrame
