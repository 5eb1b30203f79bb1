CONSTANTS
  CAN_QUEUE_SIZE = 3
  NumChannels = 1
  FifoDepth = 1
  MaxSubmit = 3
  MaxArrive = 1
  Events = {"suspend", "reset", "dfu", "bad_packet", "restart"}
SPECIFICATION Spec
INVARIANTS TypeOK OneOwner NoLeak EndpointBuffers HostFramesInOrder
PROPERTY EchoSpec
