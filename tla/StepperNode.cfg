CONSTANTS
  Firmwares = {"drivebase", "shovel"}
  NumChannels <- MCNumChannels
  Setpoints <- MCSetpoints
  NaN = NaN
  GEAR_RATIO = 1
  MAX_DUTY = 1
  ChipFaults = {2}
  RxDepth = 1
  TICKS = 4
  PERIOD = 1
  MaxMessages = 2
  MaxFaults = 1
  MaxRestarts = 1
  MaxShaft = 2
SPECIFICATION FairSpec
CHECK_DEADLOCK FALSE
INVARIANTS TypeOK HealthTrue Obeys RestartStays PanicOnlyOffBus
PROPERTIES HeartbeatsApart FaultReported Arrives
