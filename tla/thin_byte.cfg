SPECIFICATION Spec
CONSTANTS
  Definitions <- Bytes
  MODE = "CAN_THINOUT_CHG"
  CYCLE = 3
  TICKS_PER_MS = 2
  ClockSteps <- Steps
  M8 = 4
  M16 = 4
  M32 = 8
PROPERTIES NotRepeated
