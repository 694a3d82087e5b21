SPECIFICATION Spec
CONSTANTS
  c1 = c1
  c2 = c2
  Client <- Clients
  Property = {"speed", "beam"}
  CanIdOf <- MCCanIdOf
  CAN_SFF_MASK = 7
PROPERTIES DropsUnused
