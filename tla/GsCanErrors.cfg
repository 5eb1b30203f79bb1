CONSTANTS
  CAN_QUEUE_SIZE = 2
  NumChannels = 1
  FifoDepth = 1
  MaxSubmit = 2
  MaxArrive = 1
  Events = {"error"}
SPECIFICATION FairSpec
INVARIANT ToHostInOrder
PROPERTIES EchoSpec EchoLive OutRearmed StateReported
