SPECIFICATION Spec
CONSTANTS
  c1 = c1
  c2 = c2
  Client <- Clients
  Property = {"speed"}
  CanId = {1}
  CanIdOf <- MCCanIdOf
  Readonly = {1}
  Chain <- MCChain
  Unthinned = {}
  Listed = {"speed"}
  SUPPORT_PROPERTY_LIMIT = 4
  SUPPORT_CANID_MAX = 4
  CAN_SFF_MASK = 7
  Settable = {"speed"}
  SetValue = {0, 2}
  AfbSubscribeFails = FALSE
  AfbPushFails = FALSE
  M8 = 4
  M16 = 8
  M32 = 8
PROPERTIES IgnoredIsSame
